---- MODULE Spec2Model ----
(***************************************************************************)
(* Verification model of the API request / resilience layer of the Amazon  *)
(* PPC automation clients: the "complete" client                           *)
(* (amazon_ppc_optimizer.py), the rate-limit-optimized client              *)
(* (amazon_ppc_optimizer_v2.py) and the v3 client (amazon_ads_api_v3.py).  *)
(*                                                                         *)
(* Time is counted in ticks of 1/MAX_REQUESTS_PER_SECOND second, the       *)
(* smallest interval the code computes (REQUEST_INTERVAL = 0.2 s).         *)
(* Token-bucket tokens are counted in units of 1/TokenScale token, so that *)
(* one unit is refilled per tick.                                          *)
(***************************************************************************)
EXTENDS Integers, Sequences, FiniteSets, TLC

VARIABLES
    now,                \* time.time(), in ticks
    variant,            \* which client the behaviour is about
    \* ---- RateLimiter (fixed interval)
    last_request_time,  \* RateLimiter.last_request_time / last_request
    grant_log,          \* history: the instants of the last two grants
    \* ---- TokenBucketRateLimiter
    tokens,             \* TokenBucketRateLimiter.tokens (scaled)
    last_update,        \* TokenBucketRateLimiter.last_update
    last_acquire,       \* history: the last acquire call, [n, waited]
    \* ---- token (Auth / access_token, token_expiry)
    expires_in,         \* the lifetime the token endpoint grants
    expires_at,         \* Auth.expires_at; v3: self.token_expiry
    token_valid_until,  \* the instant the stored access token really expires
    check_log,          \* history: the last token check, [exchanges, margin]
    \* ---- one _request call
    pc,                 \* "idle", "attempting", "returned", "raised"
    attempt,            \* the loop index of the next attempt
    hdr_valid_until,    \* expiry of the token in the headers in use
    responses,          \* history: the responses received by this call
    sent,               \* history: token margin at each send of this call
    sleeps,             \* history: the sleeps of the retry loop of this call
    result,             \* what _request returned or raised
    idle_steps,         \* idle periods that passed before the call
    acquired,           \* history: limiter acquisitions made by this call
    \* ---- wait_for_report
    rp_pc,              \* "idle", "polling", "done"
    start_time,         \* wait_for_report: start_time
    last_poll,          \* the status_data of the last poll
    poll_log,           \* history: the statuses of the first polls
    ret,                \* what wait_for_report returned
    \* ---- CacheManager
    files,              \* cache_dir: cache key -> [payload, mtime, corrupt]
    stored,             \* history: logical key -> the last set made for it
    cache_ret,          \* history: the last cache operation and its outcome
    run_log,            \* history: the last PPCAutomation.run
    ops,                \* cache operations made
    \* ---- batch write helpers
    helper,             \* which helper runs
    updates,            \* its input list
    batch_size,         \* its batch size
    batch_i,            \* the loop index i
    issued,             \* history: the batches passed to _request, in order
    any_failed,         \* history: some request of the run failed
    batch_pc,           \* "loop", "done"
    \* ---- one domain accessor call (list_campaigns, get_keywords, ...)
    accessor,           \* which accessor is called
    acc_pc,             \* "idle", "done"
    acc_log,            \* history: the token exchange made during the call
    acc_result,         \* what the accessor call came to
    \* ---- PPCAutomation.run and its features
    dry_run,            \* PPCAutomation.dry_run
    features,           \* the features argument of run
    feat_run,           \* the features run has executed so far
    api_log,            \* history: the API calls the features made
    audit_log,          \* history: AuditLogger entries, per feature
    \* ---- download_report
    report_rows,        \* the rows of the report behind the download URL
    newline,            \* the line terminator the report is written with
    dl_out,             \* history: per payload format, the last download
    \* ---- limiter throughput
    nowait_log,         \* history: instants of the last grants made without waiting
    \* ---- run_optimizer / apply_bid_optimization (main.py)
    opt_keywords,       \* what list_keywords has to return: how many keywords
                        \* get a higher bid, a lower bid, no change
    opt_runs,           \* history: the runs made, each with its response
    \* ---- one batched write call
    wr_log,             \* history: the write call made and what it reported
    \* ---- get_keywords with and without the cache, against one remote store
    remote_bid,         \* the bid of the keyword in the remote store
    kw_cache,           \* the 'keywords' cache entry of the caching client
    last_read,          \* history: the last get_keywords of both clients
    coh_ops,            \* calls made and idle periods passed
    \* ---- an orchestrated run whose features may raise
    orch,               \* the run: features executed, results, audit saved
    \* ---- wait_for_report / _wait_for_report, polls counted
    wait_log,           \* history: polls begun, time elapsed when the last began
    \* ---- dashboard server (api_server.py): metrics_cache and its threads
    mc_data,            \* metrics_cache['data']: the fetch it came from, 0 for {}
    mc_stamp,           \* metrics_cache['last_updated']: [fetch, time]
    bg,                 \* the update_metrics_cache thread
    hs,                 \* the get_metrics request handlers
    fetches,            \* fetch_metrics calls that returned metrics so far
    served,             \* history: the last answer served from the cache
    dash_steps,         \* periods of time that passed
    \* ---- POST /api/optimize
    opt_flag,           \* metrics_cache['optimizer_running']
    opt_h,              \* the run_optimization request handlers
    opt_threads,        \* the optimize thread of each handler
    \* ---- run_optimizer (main.py) and the dry_run it resolves
    main_log,           \* history: the run made, its write calls, its response
    \* ---- cache entries of clients of different profiles
    scope_log,          \* history: the entry stored by one client, read by another
    \* ---- bid computation
    bid_case            \* history: the inputs of one bid update and the bid sent

limVars == <<last_request_time, grant_log>>
bucketVars == <<tokens, last_update, last_acquire>>
tokenVars == <<expires_in, expires_at, token_valid_until, check_log>>
reqVars == <<pc, attempt, hdr_valid_until, responses, sent, sleeps, result, idle_steps,
             acquired>>
clientVars == <<limVars, bucketVars, tokenVars, reqVars>>
reportVars == <<rp_pc, start_time, last_poll, poll_log, ret>>
cacheVars == <<files, stored, cache_ret, run_log, ops>>
batchVars == <<helper, updates, batch_size, batch_i, issued, any_failed, batch_pc>>
accVars == <<accessor, acc_pc, acc_log, acc_result>>
runVars == <<dry_run, features, feat_run, api_log, audit_log>>
dlVars == <<report_rows, newline, dl_out>>
thrVars == <<nowait_log>>
optVars == <<opt_keywords, opt_runs>>
wrVars == <<wr_log>>
cohVars == <<remote_bid, kw_cache, last_read, coh_ops>>
coreVars == <<reportVars, cacheVars, batchVars>>
orchVars == <<orch>>
waitVars == <<wait_log>>
dashVars == <<mc_data, mc_stamp, bg, hs, fetches, served, dash_steps>>
poolVars == <<opt_flag, opt_h, opt_threads>>
mainVars == <<main_log>>
scopeVars == <<scope_log>>
bidVars == <<bid_case>>
lateVars == <<orchVars, waitVars, dashVars, poolVars, mainVars, scopeVars, bidVars>>
midVars == <<accVars, runVars, dlVars, thrVars, optVars, wrVars, cohVars>>
extVars == <<midVars, lateVars>>
layerVars == <<coreVars, extVars>>
\* the layers other than the one an action is about
accRest == <<coreVars, runVars, dlVars, thrVars, optVars, wrVars, cohVars,
            lateVars>>
runRest == <<coreVars, accVars, dlVars, thrVars, optVars, wrVars, cohVars,
            lateVars>>
dlRest == <<coreVars, accVars, runVars, thrVars, optVars, wrVars, cohVars,
            lateVars>>
thrRest == <<coreVars, accVars, runVars, dlVars, optVars, wrVars, cohVars,
            lateVars>>
optRest == <<coreVars, accVars, runVars, dlVars, thrVars, wrVars, cohVars,
            lateVars>>
wrRest == <<coreVars, accVars, runVars, dlVars, thrVars, optVars, cohVars,
            lateVars>>
cohRest == <<coreVars, accVars, runVars, dlVars, thrVars, optVars, wrVars,
            lateVars>>
orchRest == <<coreVars, midVars, waitVars, dashVars, poolVars, mainVars, scopeVars,
              bidVars>>
waitRest == <<cacheVars, batchVars, midVars, orchVars, dashVars, poolVars, mainVars,
              scopeVars, bidVars>>
dashRest == <<coreVars, midVars, orchVars, waitVars, poolVars, mainVars, scopeVars,
              bidVars>>
poolRest == <<coreVars, midVars, orchVars, waitVars, dashVars, mainVars, scopeVars,
              bidVars>>
mainRest == <<coreVars, midVars, orchVars, waitVars, dashVars, poolVars, scopeVars,
              bidVars>>
scopeRest == <<coreVars, midVars, orchVars, waitVars, dashVars, poolVars, mainVars,
               bidVars>>
bidRest == <<coreVars, midVars, orchVars, waitVars, dashVars, poolVars, mainVars,
             scopeVars>>
vars == <<now, variant, clientVars, layerVars>>

----------------------------------------------------------------------------
(* Program constants *)

MAX_REQUESTS_PER_SECOND == 5
DEFAULT_REQUEST_DELAY == 5
BUCKET_SIZE == 3

TicksPerSecond == MAX_REQUESTS_PER_SECOND
Sec(n) == n * TicksPerSecond

(* Bounds of the model *)
MaxTime == 30          \* the limiter clocks stop advancing past this tick
MaxOvershoot == 2      \* a sleep(d) lasts d .. d + MaxOvershoot ticks
MaxAdvance == 3        \* the caller lets 1 .. MaxAdvance ticks pass between calls
MaxAcquire == 4        \* acquire(n) is called with n in 1 .. MaxAcquire

Min(a, b) == IF a < b THEN a ELSE b
Max(a, b) == IF a > b THEN a ELSE b

\* Python's None where the other values are numbers
None == 0 - 1

----------------------------------------------------------------------------
(* RateLimiter: fixed interval *)

FixedVariants == {"complete", "v3"}

\* complete: interval = 1.0 / max_per_second; v3: min_interval = 1.0 / 0.5
Interval(v) ==
    IF v = "v3" THEN 2 * TicksPerSecond
    ELSE TicksPerSecond \div MAX_REQUESTS_PER_SECOND

SleepTimeNever(v, current_time, last) == 0

SleepTimeNoRemainder(v, current_time, last) ==
    IF current_time - last < Interval(v) THEN current_time - last ELSE 0

\* the time wait_if_needed asks sleep() for; 0 when it does not sleep
SleepTime(v, current_time, last) ==
    IF current_time - last < Interval(v)
    THEN Interval(v) - (current_time - last)
    ELSE 0

\* RateLimiter.wait_if_needed; over: how long the sleep overshoots, or how
\* long the clock moves between the two time.time() reads
WaitIfNeeded(over) ==
    LET sleep_time == SleepTime(variant, now, last_request_time) IN
    /\ now' = now + sleep_time + over
    /\ last_request_time' = now'
    /\ grant_log' = IF Len(grant_log) < 2 THEN Append(grant_log, now')
                    ELSE <<grant_log[2], now'>>

LimInit ==
    /\ now = 0
    /\ variant \in FixedVariants
    /\ last_request_time = 0
    /\ grant_log = <<>>

LimCall ==
    /\ now <= MaxTime
    /\ \E over \in 0..MaxOvershoot : WaitIfNeeded(over)
    /\ UNCHANGED <<variant, bucketVars, tokenVars, reqVars, layerVars>>

LimAdvance ==
    /\ now <= MaxTime
    /\ \E d \in 1..MaxAdvance : now' = now + d
    /\ UNCHANGED <<variant, limVars, bucketVars, tokenVars, reqVars, layerVars>>

----------------------------------------------------------------------------
(* TokenBucketRateLimiter *)

\* ticks needed to refill one token: tokens_per_second = 1.0 / request_delay
TokenScale == DEFAULT_REQUEST_DELAY * TicksPerSecond
BucketCap == BUCKET_SIZE * TokenScale

RefillUncapped(tok, elapsed) == tok + elapsed

\* tokens = min(bucket_size, tokens + elapsed * tokens_per_second)
Refill(tok, elapsed) == Min(BucketCap, tok + elapsed)

\* TokenBucketRateLimiter.acquire(n)
Acquire(n, over) ==
    LET filled == Refill(tokens, now - last_update)
        want == n * TokenScale
        wait_time == want - filled     \* (tokens - self.tokens) / tokens_per_second
    IN  IF filled < want
        THEN /\ now' = now + wait_time + over
             /\ tokens' = 0
             /\ last_update' = now'
             /\ last_acquire' = [n |-> n, waited |-> TRUE]
        ELSE /\ now' = now
             /\ tokens' = filled - want
             /\ last_update' = now
             /\ last_acquire' = [n |-> n, waited |-> FALSE]

\* the bucket clock stops advancing once an empty bucket could have refilled
BucketHorizon == BucketCap

BucketStart ==
    /\ tokens = BucketCap
    /\ last_update = now
    /\ last_acquire = [n |-> 0, waited |-> FALSE]

BucketInit ==
    /\ now = 0
    /\ variant = "optimized"
    /\ BucketStart

BucketCall ==
    /\ now <= BucketHorizon
    /\ \E n \in 1..MaxAcquire, over \in {0, MaxOvershoot} : Acquire(n, over)
    /\ UNCHANGED <<variant, limVars, tokenVars, reqVars, layerVars>>

BucketAdvance ==
    /\ now <= BucketHorizon
    /\ \E d \in {MaxAdvance, TokenScale, BucketCap + 1} : now' = now + d
    /\ UNCHANGED <<variant, limVars, bucketVars, tokenVars, reqVars, layerVars>>

----------------------------------------------------------------------------
(* Token handling: Auth.is_expired, _authenticate, _refresh_auth_if_needed, *)
(* _headers; v3: _refresh_access_token, _get_headers                        *)

Variants == {"complete", "optimized", "v3"}

\* is_expired compares against expires_at - 60
GRACE_SECONDS == 60
\* v3 stores the expiry 300 seconds early
V3_EARLY_SECONDS == 300

Grace == Sec(GRACE_SECONDS)

\* the lifetimes (seconds) the token endpoint is configured with
ExpiresInValues == {Sec(30), Sec(3600)}

IsExpiredNoGrace(v, t, exp) ==
    IF v = "v3" THEN exp # 0 /\ t >= exp + Sec(V3_EARLY_SECONDS)
    ELSE t > exp

\* Auth.is_expired; v3: the test of _get_headers
IsExpired(v, t, exp) ==
    IF v = "v3" THEN exp # 0 /\ t >= exp
    ELSE t > exp - Grace

\* the expiry _authenticate / _refresh_access_token stores at time t
StoredExpiry(v, t, lifetime) ==
    IF v = "v3" THEN t + lifetime - Sec(V3_EARLY_SECONDS)
    ELSE t + lifetime

\* _refresh_auth_if_needed / the head of _get_headers, at time t
TokenCheck(v, t, exp, valid, lifetime) ==
    IF IsExpired(v, t, exp)
    THEN [expires_at |-> StoredExpiry(v, t, lifetime),
          valid_until |-> t + lifetime,
          exchanges |-> 1]
    ELSE [expires_at |-> exp, valid_until |-> valid, exchanges |-> 0]

\* _headers() / _get_headers() called at time t: the token state after it
Headers(t) ==
    LET c == TokenCheck(variant, t, expires_at, token_valid_until, expires_in) IN
    /\ expires_at' = c.expires_at
    /\ token_valid_until' = c.valid_until
    /\ check_log' = [made |-> TRUE, exchanges |-> c.exchanges, margin |-> c.valid_until - t]
    /\ hdr_valid_until' = c.valid_until
    /\ UNCHANGED expires_in

----------------------------------------------------------------------------
(* _request: rate limiting, retry loop *)

MAX_RETRIES == 5
BASE_RETRY_DELAY == 5
MAX_RETRY_DELAY == 120
max_retries_complete == 3
retry_delay_complete == 1
max_retries_v3 == 3

MaxRetries(v) ==
    CASE v = "optimized" -> MAX_RETRIES
      [] v = "complete" -> max_retries_complete
      [] OTHER -> max_retries_v3

\* the header is absent
NoHeader == 0 - 1
\* Retry-After header values (seconds) a response may carry
RetryAfterValues == {0, 300}
Statuses == {200, 304, 404, 425, 429, 500}

\* the responses the transport may answer with; Retry-After only matters on
\* the statuses some client reads it for
Responses ==
    [status : Statuses \ {425, 429}, retry_after : {NoHeader}]
    \cup [status : {425, 429}, retry_after : RetryAfterValues \cup {NoHeader}]

RECURSIVE Pow2(_)
Pow2(k) == IF k = 0 THEN 1 ELSE 2 * Pow2(k - 1)

RaiseForStatusServerOnly(s) == s >= 500 /\ s < 600

\* requests.Response.raise_for_status raises for 4xx and 5xx
RaiseForStatus(s) == s >= 400 /\ s < 600

\* the statuses the client treats as a rate-limit answer
IsRateLimit(v, s) == IF v = "optimized" THEN s \in {429, 425} ELSE s = 429

\* the sleep (ticks) after an HTTPError on loop index k
Backoff(v, k) ==
    CASE v = "optimized" -> Sec(Min(BASE_RETRY_DELAY * Pow2(k), MAX_RETRY_DELAY))
      [] v = "complete" -> Sec(retry_delay_complete * (k + 1))
      [] OTHER -> Sec(Pow2(k))

\* the sleep (ticks) after a rate-limit answer on loop index k
RetryAfterSleep(v, k, ra) ==
    CASE v = "optimized" ->
            IF ra = NoHeader \/ ra = 0
            THEN Sec(Min(BASE_RETRY_DELAY * Pow2(k), MAX_RETRY_DELAY))
            ELSE Sec(ra)
      [] v = "complete" ->
            IF ra = NoHeader THEN Sec(retry_delay_complete * (k + 1)) ELSE Sec(ra)
      [] OTHER ->
            IF ra = NoHeader THEN Sec(Pow2(k)) ELSE Sec(ra)

NoResult == [kind |-> "none", status |-> None, body |-> None]

HandleFailFast(v, k, r) ==
    IF IsRateLimit(v, r.status) \/ r.status = 425
    THEN [sleep |-> RetryAfterSleep(v, k, r.retry_after),
          next |-> IF k + 1 < MaxRetries(v) THEN "attempting" ELSE "raised",
          result |-> IF k + 1 < MaxRetries(v) THEN NoResult
                     ELSE [kind |-> "Exception", status |-> None, body |-> None]]
    ELSE IF RaiseForStatus(r.status)
    THEN IF k = MaxRetries(v) - 1 \/ r.status < 500
         THEN [sleep |-> 0, next |-> "raised",
               result |-> [kind |-> "HTTPError", status |-> r.status, body |-> r.body]]
         ELSE [sleep |-> Backoff(v, k), next |-> "attempting", result |-> NoResult]
    ELSE [sleep |-> 0, next |-> "returned",
          result |-> [kind |-> "response", status |-> r.status, body |-> r.body]]

\* one iteration of the retry loop on loop index k with response r:
\* what the loop does next, the sleep it takes and what leaves _request
Handle(v, k, r) ==
    IF IsRateLimit(v, r.status)
    THEN \* sleep, continue; the loop falls through to the final raise
         [sleep |-> RetryAfterSleep(v, k, r.retry_after),
          next |-> IF k + 1 < MaxRetries(v) THEN "attempting" ELSE "raised",
          result |-> IF k + 1 < MaxRetries(v) THEN NoResult
                     ELSE [kind |-> "Exception", status |-> None, body |-> None]]
    ELSE IF RaiseForStatus(r.status)
    THEN IF k = MaxRetries(v) - 1
         THEN [sleep |-> 0, next |-> "raised",
               result |-> [kind |-> "HTTPError", status |-> r.status, body |-> r.body]]
         ELSE [sleep |-> Backoff(v, k), next |-> "attempting", result |-> NoResult]
    ELSE [sleep |-> 0, next |-> "returned",
          result |-> [kind |-> "response", status |-> r.status, body |-> r.body]]

\* the clock origin: time.time() is far from 0
Epoch == Sec(10000)
\* idle periods (ticks) between construction and the call
IdleGaps == {Sec(1), Sec(3299)}
MaxIdleSteps == 2

ReqInit ==
    /\ now = Epoch
    /\ variant \in Variants
    /\ expires_in \in ExpiresInValues
    \* __init__: _authenticate() / _refresh_access_token()
    /\ expires_at = StoredExpiry(variant, now, expires_in)
    /\ token_valid_until = now + expires_in
    /\ check_log = [made |-> FALSE, exchanges |-> 0, margin |-> 0]
    /\ last_request_time = 0
    /\ grant_log = <<>>
    /\ IF variant = "optimized"
       THEN BucketStart
       ELSE tokens = 0 /\ last_update = 0 /\ last_acquire = [n |-> 0, waited |-> FALSE]
    /\ pc = "idle"
    /\ attempt = 0
    /\ hdr_valid_until = 0
    /\ responses = <<>>
    /\ sent = <<>>
    /\ sleeps = <<>>
    /\ result = NoResult
    /\ idle_steps = 0
    /\ acquired = 0

\* time passes before the call
ReqIdle ==
    /\ pc = "idle"
    /\ idle_steps < MaxIdleSteps
    /\ \E d \in IdleGaps : now' = now + d
    /\ idle_steps' = idle_steps + 1
    /\ UNCHANGED <<variant, limVars, bucketVars, tokenVars, pc, attempt,
                   hdr_valid_until, responses, sent, sleeps, result, acquired,
                   layerVars>>

\* _request up to the loop: the limiter, and in the complete and v3 clients
\* the headers
ReqBegin ==
    /\ pc = "idle"
    /\ pc' = "attempting"
    /\ attempt' = 0
    /\ acquired' = acquired + 1
    /\ IF variant = "optimized"
       THEN /\ Acquire(1, 0)
            /\ UNCHANGED <<limVars, tokenVars, hdr_valid_until>>
       ELSE /\ WaitIfNeeded(0)
            /\ Headers(now')
            /\ UNCHANGED bucketVars
    /\ UNCHANGED <<variant, responses, sent, sleeps, result, idle_steps, layerVars>>

\* one iteration of the loop: send, receive r, then return, raise or sleep
ReqAttempt ==
    /\ pc = "attempting"
    /\ \E r0 \in Responses :
        LET r == [status |-> r0.status, retry_after |-> r0.retry_after,
                  body |-> Len(responses) + 1]
            h == Handle(variant, attempt, r)
        IN  /\ IF variant = "optimized"
               THEN Headers(now)
               ELSE UNCHANGED <<tokenVars, hdr_valid_until>>
            /\ sent' = Append(sent, hdr_valid_until' - now)
            /\ responses' = Append(responses, r)
            /\ sleeps' = IF h.next = "attempting" \/ IsRateLimit(variant, r.status)
                         THEN Append(sleeps, h.sleep) ELSE sleeps
            /\ now' = now + h.sleep
            /\ pc' = h.next
            /\ result' = h.result
            /\ attempt' = attempt + 1
    /\ UNCHANGED <<variant, limVars, bucketVars, idle_steps, acquired, layerVars>>

----------------------------------------------------------------------------
(* Report polling: get_report_status, wait_for_report (complete, optimized) *)

ReportVariants == {"complete", "optimized"}

REPORT_POLL_INTERVAL == 10
REPORT_MAX_WAIT == 600
report_timeout_complete == 300
report_sleep_complete == 5

\* the timeout the callers of wait_for_report leave at its default
ReportTimeout(v) ==
    IF v = "optimized" THEN Sec(REPORT_MAX_WAIT) ELSE Sec(report_timeout_complete)
PollInterval(v) ==
    IF v = "optimized" THEN Sec(REPORT_POLL_INTERVAL) ELSE Sec(report_sleep_complete)

\* Python's None where the other values are strings
PyNone == "None"

\* status_data as get_report_status returns it: the JSON object of the
\* response, or {} (no status, no location) when the request failed
StatusData ==
    [status : {"PENDING", "RUNNING", "FAILURE", "CANCELLED", PyNone},
     location : {PyNone}]
    \cup [status : {"SUCCESS"}, location : {"url", PyNone}]

\* how long one get_report_status call may take (ticks)
PollDurations == {0, Sec(2)}
MaxPollLog == 3

NoPoll == [status |-> "NoPoll", location |-> PyNone]
NotReturned == [returned |-> FALSE, value |-> PyNone, why |-> "-"]

PollStepIgnoringFailure(sd) ==
    IF sd.status = "SUCCESS"
    THEN [returned |-> TRUE, value |-> sd.location, why |-> "SUCCESS"]
    ELSE NotReturned

\* the body of the polling loop after status_data has been fetched
PollStep(sd) ==
    IF sd.status = "SUCCESS"
    THEN [returned |-> TRUE, value |-> sd.location, why |-> "SUCCESS"]
    ELSE IF sd.status \in {"FAILURE", "CANCELLED"}
    THEN [returned |-> TRUE, value |-> PyNone, why |-> "FAILED"]
    ELSE NotReturned

ReportStart ==
    /\ rp_pc = "idle"
    /\ start_time = 0
    /\ last_poll = NoPoll
    /\ poll_log = <<>>
    /\ ret = NotReturned

ReportInit ==
    /\ now = Epoch
    /\ variant \in ReportVariants
    /\ ReportStart

\* wait_for_report: start_time = time.time()
RpBegin ==
    /\ rp_pc = "idle"
    /\ rp_pc' = "polling"
    /\ start_time' = now
    /\ UNCHANGED <<now, variant, clientVars, last_poll, poll_log, ret, extVars,
                   cacheVars, batchVars>>

\* one evaluation of the while condition, and one iteration when it holds
RpIterate ==
    /\ rp_pc = "polling"
    /\ IF now - start_time < ReportTimeout(variant)
       THEN \E sd \in StatusData, d \in PollDurations :
               LET r == PollStep(sd) IN
               /\ last_poll' = sd
               /\ poll_log' = IF Len(poll_log) < MaxPollLog
                              THEN Append(poll_log, sd.status) ELSE poll_log
               /\ ret' = r
               /\ rp_pc' = IF r.returned THEN "done" ELSE "polling"
               /\ now' = IF r.returned THEN now + d
                         ELSE now + d + PollInterval(variant)
       ELSE /\ ret' = [returned |-> TRUE, value |-> PyNone, why |-> "TIMEOUT"]
            /\ rp_pc' = "done"
            /\ UNCHANGED <<now, last_poll, poll_log>>
    /\ UNCHANGED <<variant, clientVars, start_time, cacheVars, batchVars, extVars>>

----------------------------------------------------------------------------
(* CacheManager: _get_cache_key, get, set, clear_expired; PPCAutomation.run *)

CACHE_LIFETIME_HOURS == 4
CacheLifetime == Sec(CACHE_LIFETIME_HOURS * 3600)

\* the keyword names in use, in sorted order
KwNames == <<"ad_group_id", "campaign_id">>
Rank(name) == CHOOSE k \in 1..Len(KwNames) : KwNames[k] = name

RECURSIVE InsertItem(_, _)
InsertItem(item, s) ==
    IF s = <<>> THEN <<item>>
    ELSE IF Rank(item[1]) <= Rank(s[1][1]) THEN <<item>> \o s
    ELSE <<s[1]>> \o InsertItem(item, Tail(s))

SortItemsUnsorted(kw) == kw

\* sorted(kwargs.items()); kw is the items in the order of the call
RECURSIVE SortItems(_)
SortItems(kw) ==
    IF kw = <<>> THEN <<>> ELSE InsertItem(kw[1], SortItems(Tail(kw)))

\* _get_cache_key: the md5 of f"{prefix}:{args}:{sorted(kwargs.items())}",
\* taken as injective on the formatted string
CacheKey(req) == <<req.prefix, req.args, SortItems(req.kwargs)>>

KwCampaign == <<"campaign_id", "c1">>
KwAdGroup == <<"ad_group_id", "g1">>
\* the calls made: a prefix, positional arguments, keyword arguments in the
\* order of the call
CacheRequests ==
    [prefix : {"keywords"}, args : {<<>>},
     kwargs : {<<KwCampaign>>, <<KwCampaign, KwAdGroup>>, <<KwAdGroup, KwCampaign>>}]
Payloads == {"A", "B"}
Features == {"bid_optimization", "keyword_discovery"}
MaxOps == 4

\* the logical key of a call: the keyword arguments as a set
LogicalKey(req) ==
    <<req.prefix, req.args, {req.kwargs[k] : k \in 1..Len(req.kwargs)}>>
LogicalKeys == {LogicalKey(req) : req \in CacheRequests}

Expired(f) == now - f.mtime > CacheLifetime
Without(fs, ks) == [k \in DOMAIN fs \ ks |-> fs[k]]
With(fs, key, f) == [k \in DOMAIN fs \cup {key} |-> IF k = key THEN f ELSE fs[k]]

NoOp == [op |-> "none", lkey |-> <<>>, key |-> <<>>, kwargs |-> <<>>,
         value |-> PyNone, existed |-> FALSE, io |-> "none", outcome |-> "ok"]
NoRun == [made |-> FALSE, enabled |-> {}, executed |-> {}]

CacheStart ==
    /\ files = <<>>
    /\ stored = [l \in LogicalKeys |->
                    [state |-> "none", payload |-> PyNone, at |-> 0, kwargs |-> <<>>]]
    /\ cache_ret = NoOp
    /\ run_log = NoRun
    /\ ops = 0

CacheInit ==
    /\ now = Epoch
    /\ variant = "optimized"
    /\ CacheStart

\* CacheManager.get(prefix, *args, **kwargs); io: an I/O call inside the
\* try block (stat, unlink, open, pickle.load) fails
CacheGet ==
    /\ ops < MaxOps
    /\ \E req \in CacheRequests, io \in {"none", "fail"} :
        LET key == CacheKey(req)
            existed == key \in DOMAIN files
            value == IF ~existed \/ io = "fail" THEN PyNone
                     ELSE IF Expired(files[key]) THEN PyNone
                     ELSE IF files[key].corrupt THEN PyNone
                     ELSE files[key].payload
        IN  /\ files' = IF existed /\ io = "none" /\ Expired(files[key])
                        THEN Without(files, {key}) ELSE files
            /\ cache_ret' = [op |-> "get", lkey |-> LogicalKey(req), key |-> key,
                             kwargs |-> req.kwargs, value |-> value, existed |-> existed, io |-> io,
                             outcome |-> "ok"]
    /\ ops' = ops + 1
    /\ UNCHANGED <<now, variant, clientVars, reportVars, stored, run_log, batchVars, extVars>>

\* CacheManager.set(prefix, data, *args, **kwargs); io: open fails (nothing
\* is written) or pickle.dump fails (a truncated file is left)
CacheSet ==
    /\ ops < MaxOps
    /\ \E req \in CacheRequests, data \in Payloads, io \in {"none", "open", "dump"} :
        LET key == CacheKey(req) IN
        /\ files' = IF io = "open" THEN files
                    ELSE With(files, key, [payload |-> data, mtime |-> now,
                                           corrupt |-> io = "dump"])
        /\ stored' = [stored EXCEPT ![LogicalKey(req)] =
                        [state |-> IF io = "none" THEN "set" ELSE "failed",
                         payload |-> data, at |-> now, kwargs |-> req.kwargs]]
        /\ cache_ret' = [op |-> "set", lkey |-> LogicalKey(req), key |-> key,
                         kwargs |-> req.kwargs, value |-> PyNone, existed |-> key \in DOMAIN files,
                         io |-> io, outcome |-> "ok"]
    /\ ops' = ops + 1
    /\ UNCHANGED <<now, variant, clientVars, reportVars, run_log, batchVars, extVars>>

\* the effect of clear_expired on the directory: without a failure every
\* expired file is unlinked; a failing stat or unlink stops the sweep after
\* some of them and the exception leaves clear_expired
Sweeps(io) ==
    LET expired == {k \in DOMAIN files : Expired(files[k])} IN
    IF io = "none" THEN {[files |-> Without(files, expired), outcome |-> "ok"]}
    ELSE {[files |-> Without(files, gone), outcome |-> "raised"] :
             gone \in {g \in SUBSET expired : g # DOMAIN files}}

\* CacheManager.clear_expired(), called directly
CacheClearExpired ==
    /\ ops < MaxOps
    /\ \E io \in {"none", "fail"} :
        /\ io = "fail" => files # <<>>
        /\ \E sw \in Sweeps(io) :
            /\ files' = sw.files
            /\ cache_ret' = [NoOp EXCEPT !.op = "clear_expired", !.io = io,
                                         !.outcome = sw.outcome]
    /\ ops' = ops + 1
    /\ UNCHANGED <<now, variant, clientVars, reportVars, stored, run_log, batchVars, extVars>>

\* PPCAutomation.run(features): clear_expired() and the features share one
\* try block, so an exception of clear_expired skips every feature
CacheRun ==
    /\ ops < MaxOps
    /\ \E enabled \in SUBSET Features, io \in {"none", "fail"} :
        /\ io = "fail" => files # <<>>
        /\ \E sw \in Sweeps(io) :
            /\ files' = sw.files
            /\ cache_ret' = [NoOp EXCEPT !.op = "run", !.io = io, !.outcome = "ok"]
            /\ run_log' = [made |-> TRUE, enabled |-> enabled,
                           executed |-> IF sw.outcome = "raised" THEN {} ELSE enabled]
    /\ ops' = ops + 1
    /\ UNCHANGED <<now, variant, clientVars, reportVars, stored, batchVars, extVars>>

\* time passes between cache operations
CacheAdvance ==
    /\ ops < MaxOps
    /\ \E d \in {1, CacheLifetime, CacheLifetime + 1} : now' = now + d
    /\ cache_ret' = [NoOp EXCEPT !.op = "advance"]
    /\ ops' = ops + 1
    /\ UNCHANGED <<variant, clientVars, reportVars, files, stored, run_log, batchVars, extVars>>

----------------------------------------------------------------------------
(* Batch write helpers: update_keywords_batch, create_keywords (optimized), *)
(* apply_bid_optimization (main.py)                                         *)

Helpers == {"update_keywords_batch", "create_keywords", "apply_bid_optimization"}

\* batch_size = 100 in create_keywords, apply_bid_optimization and in the
\* call of update_keywords_batch
BATCH_SIZE == 100
MaxUpdates == 6
MaxBatchSize == 3

ListLengths == (0..MaxUpdates) \cup {50 * k : k \in 1..5}
BatchSizes(h) ==
    IF h = "update_keywords_batch" THEN (1..MaxBatchSize) \cup {BATCH_SIZE}
    ELSE {BATCH_SIZE}

\* Python's s[i:j] for 0 <= i <= j
Slice(s, i, j) == SubSeq(s, i + 1, Min(j, Len(s)))

BatchAtShort(us, i, b) == Slice(us, i, i + b - 1)

\* batch = updates[i:i + batch_size]
BatchAt(us, i, b) == Slice(us, i, i + b)

BatchInit ==
    /\ now = Epoch
    /\ helper \in Helpers
    /\ variant = IF helper = "apply_bid_optimization" THEN "v3" ELSE "optimized"
    /\ updates \in {[k \in 1..n |-> k] : n \in ListLengths}
    /\ batch_size \in BatchSizes(helper)
    /\ batch_i = 0
    /\ issued = <<>>
    /\ any_failed = FALSE
    /\ batch_pc = "loop"

\* one step of for i in range(0, len(updates), batch_size): the batch is
\* passed to one _request call, which succeeds or fails (the helper catches
\* the failure and goes on)
BatchIterate ==
    /\ batch_pc = "loop"
    /\ IF batch_i < Len(updates)
       THEN \E ok \in BOOLEAN :
               /\ issued' = Append(issued, BatchAt(updates, batch_i, batch_size))
               /\ any_failed' = (any_failed \/ ~ok)
               /\ batch_i' = batch_i + batch_size
               \* time.sleep(self.request_delay) between batches
               /\ now' = IF /\ helper # "apply_bid_optimization"
                            /\ ok
                            /\ batch_i + batch_size < Len(updates)
                         THEN now + Sec(DEFAULT_REQUEST_DELAY) ELSE now
               /\ UNCHANGED batch_pc
       ELSE /\ batch_pc' = "done"
            /\ UNCHANGED <<now, issued, any_failed, batch_i>>
    /\ UNCHANGED <<variant, clientVars, reportVars, cacheVars, helper, updates,
                   batch_size, extVars>>

----------------------------------------------------------------------------
(* Domain accessors and the token exchange made on their behalf:            *)
(* _authenticate (complete, optimized), _refresh_access_token (v3),         *)
(* list_campaigns / get_campaigns / ... with their except clauses           *)

\* how the POST to the token endpoint ends
ExchangeOutcomes == {"ok", "network_error", "non_2xx", "malformed"}
\* how the API request of the accessor ends once the headers are built
RequestOutcomes == {"response", "HTTPError", "Exception"}

\* the accessors of each client, each with the value its except clause returns
Accessors(v) ==
    IF v = "v3"
    THEN {[name |-> "list_campaigns", default |-> "[]"],
          [name |-> "list_ad_groups", default |-> "[]"],
          [name |-> "list_keywords", default |-> "[]"],
          [name |-> "update_campaign", default |-> "False"],
          [name |-> "update_keywords", default |-> "False"]}
    ELSE {[name |-> "get_campaigns", default |-> "[]"],
          [name |-> "get_ad_groups", default |-> "[]"],
          [name |-> "get_keywords", default |-> "[]"],
          [name |-> "update_campaign", default |-> "False"],
          [name |-> "update_keyword_bid", default |-> "False"]}

\* what leaves the exchange when it fails: _authenticate calls sys.exit(1),
\* _refresh_access_token re-raises the exception it caught
ExchangeFailure(v) == IF v = "v3" THEN "Exception" ELSE "SystemExit"

\* "except Exception" catches every exception but SystemExit and the other
\* BaseException classes
CaughtByExceptException(raised) == raised \in {"Exception", "HTTPError"}

NoExchange == [needed |-> FALSE, exchanges |-> 0, outcome |-> "none", acquisitions |-> 0]
NoAccResult == [kind |-> "none", value |-> "-"]

\* the accessor a, called at time t with the token state of the client:
\* _request acquires the limiter once, the headers are built (with an
\* exchange when the token is expired), the request is made, and the except
\* clause of the accessor turns what it catches into the default value
AccessorCall(v, a, t, o, q) ==
    LET needed == IsExpired(v, t, expires_at)
        raised == IF needed /\ o # "ok" THEN ExchangeFailure(v)
                  ELSE IF q = "response" THEN "nothing" ELSE q
    IN  [log |-> [needed |-> needed,
                  exchanges |-> IF needed THEN 1 ELSE 0,
                  outcome |-> IF needed THEN o ELSE "none",
                  acquisitions |-> 1],
         expires_at |-> IF needed /\ o = "ok"
                        THEN StoredExpiry(v, t, expires_in) ELSE expires_at,
         valid_until |-> IF needed /\ o = "ok"
                         THEN t + expires_in ELSE token_valid_until,
         result |-> IF raised = "nothing" THEN [kind |-> "value", value |-> "data"]
                    ELSE IF CaughtByExceptException(raised)
                    THEN [kind |-> "default", value |-> a.default]
                    ELSE [kind |-> raised, value |-> "-"]]

AccStart ==
    /\ accessor = "none"
    /\ acc_pc = "idle"
    /\ acc_log = NoExchange
    /\ acc_result = NoAccResult

AccInit ==
    /\ now = Epoch
    /\ variant \in Variants
    /\ expires_in \in ExpiresInValues
    /\ expires_at = StoredExpiry(variant, now, expires_in)
    /\ token_valid_until = now + expires_in
    /\ check_log = [made |-> FALSE, exchanges |-> 0, margin |-> 0]
    /\ last_request_time = 0
    /\ grant_log = <<>>
    /\ IF variant = "optimized"
       THEN BucketStart
       ELSE tokens = 0 /\ last_update = 0 /\ last_acquire = [n |-> 0, waited |-> FALSE]
    /\ AccStart

\* time passes before the call
AccIdle ==
    /\ acc_pc = "idle"
    /\ idle_steps < MaxIdleSteps
    /\ \E d \in IdleGaps : now' = now + d
    /\ idle_steps' = idle_steps + 1
    /\ UNCHANGED <<variant, limVars, bucketVars, tokenVars, pc, attempt,
                   hdr_valid_until, responses, sent, sleeps, result, acquired,
                   accVars, accRest>>

\* one accessor call, from its entry to what it returns or lets escape
AccCall ==
    /\ acc_pc = "idle"
    /\ \E a \in Accessors(variant), o \in ExchangeOutcomes, q \in RequestOutcomes :
        /\ IF variant = "optimized"
           THEN Acquire(1, 0) /\ UNCHANGED limVars
           ELSE WaitIfNeeded(0) /\ UNCHANGED bucketVars
        /\ LET c == AccessorCall(variant, a, now', o, q) IN
            /\ accessor' = a.name
            /\ acc_log' = c.log
            /\ acc_result' = c.result
            /\ expires_at' = c.expires_at
            /\ token_valid_until' = c.valid_until
    /\ acc_pc' = "done"
    /\ UNCHANGED <<variant, expires_in, check_log, reqVars, accRest>>

----------------------------------------------------------------------------
(* PPCAutomation.run and the feature modules: BidOptimizer.optimize,        *)
(* DaypartingManager.apply_dayparting, CampaignManager.manage_campaigns,    *)
(* KeywordDiscovery.discover_keywords,                                      *)
(* NegativeKeywordManager.add_negative_keywords (complete, optimized)       *)

RunVariants == {"complete", "optimized"}

\* the order in which run executes the features it is given
FeatureOrder(v) ==
    IF v = "complete"
    THEN <<"bid_optimization", "dayparting", "campaign_management",
           "keyword_discovery", "negative_keywords">>
    ELSE <<"bid_optimization", "campaign_management",
           "keyword_discovery", "negative_keywords">>

FeatureNames(v) == {FeatureOrder(v)[k] : k \in 1..Len(FeatureOrder(v))}

\* the accessor a feature reads the current entities with
ReadCall(f) ==
    CASE f = "campaign_management" -> "get_campaigns"
      [] f = "negative_keywords" -> "get_negative_keywords"
      [] OTHER -> "get_keywords"

\* the accessor a feature applies its changes with
WriteCall(v, f) ==
    CASE f = "bid_optimization" ->
            IF v = "optimized" THEN "update_keywords_batch" ELSE "update_keyword_bid"
      [] f = "dayparting" -> "update_keyword_bid"
      [] f = "campaign_management" -> "update_campaign"
      [] f = "keyword_discovery" -> "create_keywords"
      [] OTHER -> "create_negative_keywords"

\* changes a feature may decide on in one run
MaxCandidates == 2

WriteCallsUnguarded(v, f, dry, n) ==
    IF n > 0 THEN {[feature |-> f, kind |-> "write", call |-> WriteCall(v, f)]} ELSE {}

\* the write calls of a feature that decided on n changes:
\* "if not dry_run: self.api.update_...", "if ... and not dry_run:"
WriteCalls(v, f, dry, n) ==
    IF n > 0 /\ ~dry
    THEN {[feature |-> f, kind |-> "write", call |-> WriteCall(v, f)]}
    ELSE {}

\* the report calls of a feature; create_report of the complete client
\* returns None before it makes a request
ReportCalls(v, f) ==
    IF f = "dayparting" \/ v = "complete" THEN {}
    ELSE {[feature |-> f, kind |-> "report", call |-> "get_report_data"]}

\* whether the feature gets past its early return: a report was obtained
\* (never in the complete client), dayparting is enabled in the config
Proceeds(v, f, ready) ==
    IF f = "dayparting" THEN ready
    ELSE v # "complete" /\ ready

\* the API calls of feature f when it decides on n changes
FeatureCalls(v, f, dry, ready, n) ==
    IF Proceeds(v, f, ready)
    THEN ReportCalls(v, f)
         \cup {[feature |-> f, kind |-> "read", call |-> ReadCall(f)]}
         \cup WriteCalls(v, f, dry, n)
    ELSE ReportCalls(v, f)

\* the audit entries of feature f: one per change, each carrying dry_run
AuditEntries(v, f, dry, ready, n) ==
    IF Proceeds(v, f, ready) /\ n > 0
    THEN {[feature |-> f, entries |-> n, dry_run |-> dry]}
    ELSE {}

\* the features run has still to execute, in order
Pending(v, fs, done) ==
    SelectSeq(FeatureOrder(v), LAMBDA f : f \in fs /\ f \notin done)

RunStart ==
    /\ feat_run = {}
    /\ api_log = {}
    /\ audit_log = {}

RunInit ==
    /\ now = 0
    /\ variant \in RunVariants
    /\ dry_run \in BOOLEAN
    /\ features \in SUBSET FeatureNames(variant)
    /\ RunStart

\* run executes its next feature
RunFeature ==
    /\ Pending(variant, features, feat_run) # <<>>
    /\ LET f == Head(Pending(variant, features, feat_run)) IN
       \E ready \in BOOLEAN, n \in 0..MaxCandidates :
        /\ feat_run' = feat_run \cup {f}
        /\ api_log' = api_log \cup FeatureCalls(variant, f, dry_run, ready, n)
        /\ audit_log' = audit_log \cup AuditEntries(variant, f, dry_run, ready, n)
    /\ UNCHANGED <<now, variant, clientVars, runRest, dry_run, features>>

----------------------------------------------------------------------------
(* download_report (complete, optimized): zipfile.ZipFile, gzip.GzipFile,   *)
(* io.TextIOWrapper(newline=''), io.StringIO, csv.DictReader                *)

Formats == {"plain", "gzip", "zip"}
\* what reaches the client: the payload as written, a payload that is cut
\* short or not UTF-8, or no payload (the GET fails)
Conditions == {"intact", "undecodable", "http_error"}

CR == "CR"
LF == "LF"
Newlines == {<<LF>>, <<CR, LF>>, <<CR>>}

\* the report: a header line and rows of two cells
FieldNames == <<"a", "b">>
Cells == {"1", "2"}
MaxRows == 2
ReportRows == UNION {[1..n -> [1..2 -> Cells]] : n \in 0..MaxRows}

\* the text of the report: cells joined by commas, lines ended by nl
RECURSIVE WriteCsv(_, _)
WriteCsv(rows, nl) ==
    IF rows = <<>> THEN <<>>
    ELSE <<rows[1][1], ",", rows[1][2]>> \o nl \o WriteCsv(Tail(rows), nl)

\* the lines a text stream yields when iterated, line ends kept:
\* newline='' (universal = TRUE) ends a line at \n, \r\n or \r;
\* io.StringIO(text) ends a line at \n only
RECURSIVE ReadLines(_, _, _)
ReadLines(text, cur, universal) ==
    IF text = <<>> THEN (IF cur = <<>> THEN <<>> ELSE <<cur>>)
    ELSE LET c == Head(text)
             rest == Tail(text)
         IN  IF c = LF
             THEN <<Append(cur, c)>> \o ReadLines(rest, <<>>, universal)
             ELSE IF c = CR /\ universal
             THEN IF rest # <<>> /\ Head(rest) = LF
                  THEN <<cur \o <<CR, LF>>>> \o ReadLines(Tail(rest), <<>>, universal)
                  ELSE <<Append(cur, c)>> \o ReadLines(rest, <<>>, universal)
             ELSE ReadLines(rest, Append(cur, c), universal)

\* csv.reader on one line: fields split at commas; after \r or \n only
\* further line-end characters may follow, anything else is csv.Error
RECURSIVE ParseLine(_, _, _, _)
ParseLine(line, fields, cur, eat_crnl) ==
    IF line = <<>>
    THEN [ok |-> TRUE,
          fields |-> IF fields = <<>> /\ cur = <<>> THEN <<>> ELSE Append(fields, cur)]
    ELSE LET c == Head(line) IN
         IF c \in {CR, LF} THEN ParseLine(Tail(line), fields, cur, TRUE)
         ELSE IF eat_crnl THEN [ok |-> FALSE, fields |-> <<>>]
         ELSE IF c = "," THEN ParseLine(Tail(line), Append(fields, cur), <<>>, FALSE)
         ELSE ParseLine(Tail(line), fields, Append(cur, c), FALSE)

\* list(csv.DictReader(text)): the first row names the fields, empty rows
\* are skipped, every other row becomes a record
RECURSIVE DictRows(_, _)
DictRows(lines, names) ==
    IF lines = <<>> THEN [ok |-> TRUE, records |-> <<>>]
    ELSE LET row == ParseLine(lines[1], <<>>, <<>>, FALSE) IN
         IF ~row.ok THEN [ok |-> FALSE, records |-> <<>>]
         ELSE IF row.fields = <<>> THEN DictRows(Tail(lines), names)
         ELSE IF names = <<>> THEN DictRows(Tail(lines), row.fields)
         ELSE LET more == DictRows(Tail(lines), names) IN
              IF ~more.ok THEN more
              ELSE [ok |-> TRUE,
                    records |-> <<[names |-> names, values |-> row.fields]>>
                                \o more.records]

DictReader(text, universal) == DictRows(ReadLines(text, <<>>, universal), <<>>)

\* the payload behind the URL: the text, as it is, or inside a container
Payload(fmt, cond, rows, nl) ==
    [format |-> fmt, condition |-> cond,
     text |-> WriteCsv(<<FieldNames>> \o rows, nl)]

\* download_report: requests.get, then ZIP, GZIP (on BadZipFile), plain text
\* (on any exception of the GZIP attempt); the outer except returns []
DownloadReport(p) ==
    IF p.condition = "http_error" THEN <<>>
    ELSE IF p.format = "zip" /\ p.condition = "intact"
    THEN LET z == DictReader(p.text, TRUE) IN
         IF z.ok THEN z.records ELSE <<>>
    ELSE \* zipfile.BadZipFile, or an error of the member that ends in []
         LET g == IF p.format = "gzip" /\ p.condition = "intact"
                  THEN DictReader(p.text, TRUE)
                  ELSE [ok |-> FALSE, records |-> <<>>]
         IN  IF g.ok THEN g.records
             ELSE \* content.decode('utf-8') fails on compressed bytes
                  IF p.format = "plain" /\ p.condition = "intact"
                  THEN LET t == DictReader(p.text, FALSE) IN
                       IF t.ok THEN t.records ELSE <<>>
                  ELSE <<>>

NotDownloaded == [made |-> FALSE, condition |-> "-", records |-> <<>>]

DlStart ==
    /\ report_rows = <<>>
    /\ newline = <<LF>>
    /\ dl_out = [f \in Formats |-> NotDownloaded]

DlInit ==
    /\ now = 0
    /\ variant \in RunVariants
    /\ report_rows \in ReportRows
    /\ newline \in Newlines
    /\ dl_out = [f \in Formats |-> NotDownloaded]

\* one download_report call
DlDownload ==
    /\ \E f \in Formats, cond \in Conditions :
        /\ ~dl_out[f].made
        /\ dl_out' = [dl_out EXCEPT ![f] =
              [made |-> TRUE, condition |-> cond,
               records |-> DownloadReport(Payload(f, cond, report_rows, newline))]]
    /\ UNCHANGED <<now, variant, clientVars, dlRest, report_rows, newline>>

----------------------------------------------------------------------------
(* Throughput of the limiters: RateLimiter.wait_if_needed and               *)
(* TokenBucketRateLimiter.acquire called in any pattern                     *)

\* grants remembered in nowait_log
MaxGrantLog == 5

Push(log, t) ==
    IF Len(log) < MaxGrantLog THEN Append(log, t) ELSE Append(Tail(log), t)

\* ticks per request at the configured rate: 1 / requests_per_second
\* (fixed interval), 1 / tokens_per_second = request_delay (token bucket)
RatePeriod(v) == IF v = "optimized" THEN TokenScale ELSE Interval(v)

\* the burst a limiter lets through: bucket_size tokens, or one request
BurstAllowance(v) == IF v = "optimized" THEN BUCKET_SIZE ELSE 1

\* the clock stops once the burst and a log of evenly spaced grants have
\* passed
ThrHorizon(v) == (MaxGrantLog - BurstAllowance(v)) * RatePeriod(v)

ThrStart == nowait_log = <<>>

ThrInit ==
    /\ now = 0
    /\ variant \in Variants
    /\ last_request_time = 0
    /\ grant_log = <<>>
    /\ IF variant = "optimized"
       THEN BucketStart
       ELSE tokens = 0 /\ last_update = 0 /\ last_acquire = [n |-> 0, waited |-> FALSE]
    /\ ThrStart

\* one limiter call by the client
ThrCall ==
    /\ now <= ThrHorizon(variant)
    /\ \E over \in {0, MaxOvershoot} :
        IF variant = "optimized"
        THEN /\ \E n \in {1, MaxAcquire} : Acquire(n, over)
             /\ nowait_log' = IF last_acquire'.waited THEN nowait_log
                              ELSE Push(nowait_log, now')
             /\ UNCHANGED limVars
        ELSE /\ WaitIfNeeded(over)
             /\ nowait_log' = IF SleepTime(variant, now, last_request_time) > 0
                              THEN nowait_log
                              ELSE Push(nowait_log, now')
             /\ UNCHANGED bucketVars
    /\ UNCHANGED <<variant, tokenVars, reqVars, thrRest>>

\* time passes between calls
ThrAdvance ==
    /\ now <= ThrHorizon(variant)
    /\ \E d \in {MaxAdvance, TokenScale} : now' = now + d
    /\ UNCHANGED <<variant, clientVars, layerVars>>

----------------------------------------------------------------------------
(* run_optimizer and apply_bid_optimization (main.py) over                  *)
(* AmazonAdsAPIv3.list_keywords / update_keywords                           *)

\* the keyword lists a run may fetch: how many bids go up, go down, stay
KeywordLists ==
    [increased : {0, 1, 150, 250}, decreased : {0, 1}, unchanged : {0, 1}]

\* runs compared with each other
MaxRuns == 2

\* the updates list: one entry per changed bid
NumUpdates(kw) == kw.increased + kw.decreased
\* for i in range(0, len(updates), batch_size)
NumBatches(u) == (u + BATCH_SIZE - 1) \div BATCH_SIZE
\* len(updates[i:i+batch_size]) of the k-th batch
BatchLen(u, k) == Min(BATCH_SIZE, u - (k - 1) * BATCH_SIZE)

\* the updates the API accepted: those of the batches whose update_keywords
\* call returned True
RECURSIVE AcceptedUpdates(_, _, _)
AcceptedUpdates(u, outcomes, k) ==
    IF k = 0 THEN 0
    ELSE AcceptedUpdates(u, outcomes, k - 1)
         + (IF outcomes[k] THEN BatchLen(u, k) ELSE 0)

ZeroResults ==
    [keywords_analyzed |-> 0, bids_increased |-> 0, bids_decreased |-> 0,
     no_change |-> 0]
NoResults ==
    [keywords_analyzed |-> None, bids_increased |-> None, bids_decreased |-> None,
     no_change |-> None]

\* apply_bid_optimization: list_keywords returns [] when it fails; the
\* counters are set while the updates are collected; the value of each
\* api.update_keywords(batch) call is dropped
ApplyBidOptimization(kw, list_ok, outcomes) ==
    IF ~list_ok \/ NumUpdates(kw) + kw.unchanged = 0 THEN ZeroResults
    ELSE [keywords_analyzed |-> NumUpdates(kw) + kw.unchanged,
          bids_increased |-> kw.increased,
          bids_decreased |-> kw.decreased,
          no_change |-> kw.unchanged]

\* run_optimizer: 'error' when an exception reaches it (the client cannot
\* be constructed), 'success' with the results otherwise
RunOptimizer(kw, client_ok, list_ok, outcomes) ==
    IF ~client_ok THEN [status |-> "error", results |-> NoResults]
    ELSE [status |-> "success",
          results |-> ApplyBidOptimization(kw, list_ok, outcomes)]

OptStart ==
    /\ opt_keywords = [increased |-> 0, decreased |-> 0, unchanged |-> 0]
    /\ opt_runs = <<>>

OptInit ==
    /\ now = 0
    /\ variant = "v3"
    /\ opt_keywords \in KeywordLists
    /\ opt_runs = <<>>

\* one run_optimizer call
OptRun ==
    /\ Len(opt_runs) < MaxRuns
    /\ \E client_ok \in BOOLEAN, list_ok \in BOOLEAN :
       \E outcomes \in [1..(IF client_ok /\ list_ok
                            THEN NumBatches(NumUpdates(opt_keywords)) ELSE 0)
                        -> BOOLEAN] :
        opt_runs' = Append(opt_runs,
            [client_ok |-> client_ok, list_ok |-> list_ok, outcomes |-> outcomes,
             accepted |-> AcceptedUpdates(NumUpdates(opt_keywords), outcomes,
                                          Len(outcomes)),
             response |-> RunOptimizer(opt_keywords, client_ok, list_ok, outcomes)])
    /\ UNCHANGED <<now, variant, clientVars, optRest, opt_keywords>>

----------------------------------------------------------------------------
(* Batched writes and the per-element result codes: update_keywords (v3),   *)
(* update_keyword_bid, update_keywords_batch, create_keywords,              *)
(* create_negative_keywords (complete, optimized)                           *)

\* the write accessors of each client; checks: whether the accessor reads
\* the 'code' of each element of the response; single: one element per call
WriteHelpers(v) ==
    CASE v = "v3" ->
            {[name |-> "update_keywords", checks |-> FALSE, single |-> FALSE]}
      [] v = "complete" ->
            {[name |-> "update_keyword_bid", checks |-> FALSE, single |-> TRUE],
             [name |-> "create_keywords", checks |-> TRUE, single |-> FALSE],
             [name |-> "create_negative_keywords", checks |-> TRUE, single |-> FALSE]}
      [] OTHER ->
            {[name |-> "update_keyword_bid", checks |-> FALSE, single |-> TRUE],
             [name |-> "update_keywords_batch", checks |-> TRUE, single |-> FALSE],
             [name |-> "create_keywords", checks |-> TRUE, single |-> FALSE],
             [name |-> "create_negative_keywords", checks |-> TRUE, single |-> FALSE]}

\* the result code of an element in the response body
ElementCodes == {"SUCCESS", "INVALID_ARGUMENT"}
\* elements in one batch
MaxElements == 3

BatchCodes(h) ==
    UNION {[1..n -> ElementCodes] : n \in 1..(IF h.single THEN 1 ELSE MaxElements)}

\* the elements a write call reports as succeeded, given the 2xx / failed
\* request and the per-element codes of the response: "return True" and
\* "Updated n keywords", or the count / ids of the elements with SUCCESS
ReportedSucceeded(h, http_ok, codes) ==
    IF ~http_ok THEN {}
    ELSE IF h.checks THEN {k \in 1..Len(codes) : codes[k] = "SUCCESS"}
    ELSE 1..Len(codes)

NoWrite == [made |-> FALSE, helper |-> "none", http_ok |-> FALSE, codes |-> <<>>,
            reported |-> {}]

WrStart == wr_log = NoWrite

WrInit ==
    /\ now = 0
    /\ variant \in Variants
    /\ WrStart

\* one write call on one batch
WrCall ==
    /\ ~wr_log.made
    /\ \E h \in WriteHelpers(variant), http_ok \in BOOLEAN :
       \E codes \in BatchCodes(h) :
        wr_log' = [made |-> TRUE, helper |-> h.name, http_ok |-> http_ok,
                   codes |-> codes,
                   reported |-> ReportedSucceeded(h, http_ok, codes)]
    /\ UNCHANGED <<now, variant, clientVars, wrRest>>

----------------------------------------------------------------------------
(* get_keywords with use_cache (optimized) next to get_keywords without,    *)
(* and update_keyword_bid, against one remote store                         *)

Bids == {1, 2}
\* calls and idle periods of one behaviour
MaxCohOps == 4

NoEntry == [present |-> FALSE, bid |-> None, mtime |-> 0]
NoRead == [made |-> FALSE, cached |-> None, uncached |-> None]

\* get_keywords(use_cache=True): the cached list when cache.get has one that
\* is not expired, else the list fetched from the API, which is then cached
GetKeywords(entry, remote) ==
    IF entry.present /\ ~Expired(entry)
    THEN [value |-> entry.bid, entry |-> entry]
    ELSE [value |-> remote, entry |-> [present |-> TRUE, bid |-> remote, mtime |-> now]]

CohStart ==
    /\ remote_bid = 0
    /\ kw_cache = NoEntry
    /\ last_read = NoRead
    /\ coh_ops = 0

CohInit ==
    /\ now = Epoch
    /\ variant = "optimized"
    /\ remote_bid \in Bids
    /\ kw_cache = NoEntry
    /\ last_read = NoRead
    /\ coh_ops = 0

\* get_keywords in the caching client, and the same call in a client with
\* caching disabled
CohGet ==
    /\ coh_ops < MaxCohOps
    /\ coh_ops' = coh_ops + 1
    /\ LET g == GetKeywords(kw_cache, remote_bid) IN
        /\ kw_cache' = g.entry
        /\ last_read' = [made |-> TRUE, cached |-> g.value, uncached |-> remote_bid]
    /\ UNCHANGED <<now, variant, clientVars, cohRest, remote_bid>>

\* update_keyword_bid / update_keywords_batch: a PUT, no cache call
CohUpdate ==
    /\ coh_ops < MaxCohOps
    /\ coh_ops' = coh_ops + 1
    /\ \E bid \in Bids, ok \in BOOLEAN :
        remote_bid' = IF ok THEN bid ELSE remote_bid
    /\ UNCHANGED <<now, variant, clientVars, cohRest, kw_cache, last_read>>

\* time passes between calls
CohAdvance ==
    /\ coh_ops < MaxCohOps
    /\ coh_ops' = coh_ops + 1
    /\ \E d \in {Sec(60), CacheLifetime + 1} : now' = now + d
    /\ UNCHANGED <<variant, clientVars, cohRest, remote_bid, kw_cache, last_read>>

----------------------------------------------------------------------------
(* The state of the components below before they are used *)

NoOrch == [state |-> "idle", enabled |-> {}, executed |-> {}, results |-> {},
           raised |-> "none", audit_saved |-> FALSE]
OrchStart == orch = NoOrch

NoWait == [polls |-> 0, elapsed |-> None]
WaitStart == wait_log = NoWait

\* request handler threads of the dashboard server
Handlers == {"h1", "h2"}
NoStamp == [fetch |-> 0, time |-> None]
NoServed == [made |-> FALSE, data |-> 0, stamp |-> 0, age |-> None]
HandlerIdle == [pc |-> "idle", m |-> 0, stamp |-> 0]
DashStart ==
    /\ mc_data = 0
    /\ mc_stamp = NoStamp
    /\ bg = [pc |-> "off", m |-> 0, wake |-> 0]
    /\ hs = [h \in Handlers |-> HandlerIdle]
    /\ fetches = 0
    /\ served = NoServed
    /\ dash_steps = 0

\* request handler threads of POST /api/optimize
PoolHandlers == {"p1", "p2", "p3"}
PoolStart ==
    /\ opt_flag = FALSE
    /\ opt_h = [h \in PoolHandlers |-> [pc |-> "idle", answer |-> "none", busy |-> FALSE]]
    /\ opt_threads = [h \in PoolHandlers |-> "none"]

NoMainRun == [made |-> FALSE, dry_run |-> FALSE, writes |-> {},
              response_dry_run |-> FALSE, request |-> "absent", env |-> ""]
MainStart == main_log = NoMainRun

NoHit == [made |-> FALSE, accessor |-> "none", reader |-> "none", owner |-> "none"]
ScopeStart == scope_log = [entries |-> {}, hit |-> NoHit]

NoBid == [made |-> FALSE, path |-> "none", current |-> 0, min_bid |-> 0, max_bid |-> 0,
          factor |-> 0, sent |-> None]
BidStart == bid_case = NoBid

----------------------------------------------------------------------------
(* _request when requests.request itself raises: ConnectionError, Timeout   *)

\* the status recorded for an attempt that got no response
NetworkError == 0 - 2
\* what one attempt may come to: a response, or an exception of the transport
TransportOutcomes ==
    [status : {200, 500, 429, NetworkError}, retry_after : {NoHeader}]

\* one iteration of the retry loop when the attempt may raise a
\* requests.exceptions.RequestException that is no HTTPError: the optimized
\* client has "except Exception" (raise on the last index, else sleep
\* BASE_RETRY_DELAY * (attempt + 1)); the complete and v3 clients catch
\* HTTPError only, so the exception leaves _request
HandleTransport(v, k, r) ==
    IF r.status = NetworkError
    THEN IF v = "optimized" /\ k # MaxRetries(v) - 1
         THEN [sleep |-> Sec(BASE_RETRY_DELAY * (k + 1)), next |-> "attempting",
               result |-> NoResult]
         ELSE [sleep |-> 0, next |-> "raised",
               result |-> [kind |-> "ConnectionError", status |-> None, body |-> None]]
    ELSE Handle(v, k, r)

\* one iteration of the loop with a transport that may fail
ReqTransport ==
    /\ pc = "attempting"
    /\ \E r0 \in TransportOutcomes :
        LET r == [status |-> r0.status, retry_after |-> r0.retry_after,
                  body |-> Len(responses) + 1]
            h == HandleTransport(variant, attempt, r)
        IN  /\ IF variant = "optimized"
               THEN Headers(now)
               ELSE UNCHANGED <<tokenVars, hdr_valid_until>>
            /\ sent' = Append(sent, hdr_valid_until' - now)
            /\ responses' = Append(responses, r)
            /\ sleeps' = IF h.next = "attempting" \/ IsRateLimit(variant, r.status)
                         THEN Append(sleeps, h.sleep) ELSE sleeps
            /\ now' = now + h.sleep
            /\ pc' = h.next
            /\ result' = h.result
            /\ attempt' = attempt + 1
    /\ UNCHANGED <<variant, limVars, bucketVars, idle_steps, acquired, layerVars>>

----------------------------------------------------------------------------
(* PPCAutomation.run (complete, optimized) and run_optimizer (main.py, on   *)
(* the v3 client) when a feature raises                                     *)

\* the order of the feature calls; run_optimizer calls the five features of
\* main.py in the order of the complete client
OrchOrder(v) == IF v = "v3" THEN FeatureOrder("complete") ELSE FeatureOrder(v)

\* the features the orchestrator calls: those named in the features argument;
\* run_optimizer calls every feature
OrchEnabled(v) ==
    IF v = "v3" THEN {{OrchOrder(v)[k] : k \in 1..Len(OrchOrder(v))}}
    ELSE SUBSET FeatureNames(v)

\* whether an exception can leave a feature: the feature methods of the
\* complete and optimized clients have no handler of their own; every feature
\* function of main.py has its body in "try: ... except Exception: return results"
CanRaise(v) == v # "v3"

OrchPending(v, o) ==
    SelectSeq(OrchOrder(v), LAMBDA f : f \in o.enabled /\ f \notin o.executed)

\* the orchestrator when feature f raises: the one "except Exception" around
\* all features logs it, "finally" saves the audit trail, the results
\* collected so far are returned; run_optimizer returns status 'error'
\* without the results
FeatureRaised(v, o, f) ==
    [state |-> "returned", enabled |-> o.enabled,
     executed |-> o.executed \cup {f},
     results |-> IF v = "v3" THEN {} ELSE o.results,
     raised |-> f,
     audit_saved |-> v # "v3"]

OrchInit ==
    /\ now = 0
    /\ variant \in Variants
    /\ \E en \in OrchEnabled(variant) :
        orch = [state |-> "running", enabled |-> en, executed |-> {}, results |-> {},
                raised |-> "none", audit_saved |-> FALSE]

\* the next feature call: it returns its results, or raises
OrchFeature ==
    /\ orch.state = "running"
    /\ OrchPending(variant, orch) # <<>>
    /\ LET f == Head(OrchPending(variant, orch)) IN
       \E raises \in (IF CanRaise(variant) THEN BOOLEAN ELSE {FALSE}) :
        orch' = IF raises THEN FeatureRaised(variant, orch, f)
                ELSE [orch EXCEPT !.executed = @ \cup {f}, !.results = @ \cup {f}]
    /\ UNCHANGED <<now, variant, clientVars, orchRest>>

\* after the last feature: finally: self.audit.save(); return results
OrchReturn ==
    /\ orch.state = "running"
    /\ OrchPending(variant, orch) = <<>>
    /\ orch' = [orch EXCEPT !.state = "returned", !.audit_saved = (variant # "v3")]
    /\ UNCHANGED <<now, variant, clientVars, orchRest>>

----------------------------------------------------------------------------
(* wait_for_report (complete, optimized) and _wait_for_report (v3), with    *)
(* the polls counted                                                        *)

V3_MAX_POLLS == 30
V3_POLL_SLEEP == 3

WaitConditionInclusive(v, elapsed) == elapsed <= ReportTimeout(v)

\* while time.time() - start_time < timeout
WaitCondition(v, elapsed) == elapsed < ReportTimeout(v)

\* what one poll of the v3 client comes to: the 'status' of the JSON object,
\* none, or an exception of _request, which is logged
V3StatusData ==
    [status : {"PENDING", "FAILED", PyNone, "raised"}, location : {PyNone}]
    \cup [status : {"COMPLETED"}, location : {"url", PyNone}]

\* the body of the v3 loop after the poll
V3PollStep(sd) ==
    IF sd.status = "COMPLETED"
    THEN [returned |-> TRUE, value |-> sd.location, why |-> "SUCCESS"]
    ELSE IF sd.status = "FAILED"
    THEN [returned |-> TRUE, value |-> PyNone, why |-> "FAILED"]
    ELSE NotReturned

WaitInit ==
    /\ now = Epoch
    /\ variant \in Variants
    /\ ReportStart
    /\ WaitStart

\* start_time = time.time(); v3: the for loop is entered
WaitBegin ==
    /\ rp_pc = "idle"
    /\ rp_pc' = "polling"
    /\ start_time' = now
    /\ UNCHANGED <<now, variant, clientVars, last_poll, poll_log, ret, wait_log,
                   waitRest>>

\* wait_for_report: one evaluation of the while condition, and one iteration
\* when it holds
WaitIterate ==
    /\ rp_pc = "polling"
    /\ variant \in ReportVariants
    /\ IF WaitCondition(variant, now - start_time)
       THEN \E sd \in StatusData, d \in PollDurations :
               LET r == PollStep(sd) IN
               /\ wait_log' = [polls |-> wait_log.polls + 1,
                               elapsed |-> now - start_time]
               /\ last_poll' = sd
               /\ ret' = r
               /\ rp_pc' = IF r.returned THEN "done" ELSE "polling"
               /\ now' = IF r.returned THEN now + d
                         ELSE now + d + PollInterval(variant)
       ELSE /\ ret' = [returned |-> TRUE, value |-> PyNone, why |-> "TIMEOUT"]
            /\ rp_pc' = "done"
            /\ UNCHANGED <<now, last_poll, wait_log>>
    /\ UNCHANGED <<variant, clientVars, start_time, poll_log, waitRest>>

\* _wait_for_report: one iteration of "for _ in range(30)": sleep, poll
WaitIterateV3 ==
    /\ rp_pc = "polling"
    /\ variant = "v3"
    /\ IF wait_log.polls < V3_MAX_POLLS
       THEN \E sd \in V3StatusData, d \in PollDurations :
               LET r == V3PollStep(sd) IN
               /\ wait_log' = [polls |-> wait_log.polls + 1,
                               elapsed |-> now + Sec(V3_POLL_SLEEP) - start_time]
               /\ last_poll' = sd
               /\ ret' = r
               /\ rp_pc' = IF r.returned THEN "done" ELSE "polling"
               /\ now' = now + Sec(V3_POLL_SLEEP) + d
       ELSE /\ ret' = [returned |-> TRUE, value |-> PyNone, why |-> "TIMEOUT"]
            /\ rp_pc' = "done"
            /\ UNCHANGED <<now, last_poll, wait_log>>
    /\ UNCHANGED <<variant, clientVars, start_time, poll_log, waitRest>>

----------------------------------------------------------------------------
(* run_optimizer (main.py): the dry_run it resolves and the write calls of  *)
(* its features                                                             *)

\* the dry_run field of the request JSON: true, false, or no such field
RequestDryRun == {"true", "false", "absent"}
\* values of the DRY_RUN environment variable
EnvDryRun == {"", "true", "TRUE", "1", "yes", "no"}

\* str.lower on the values above
Lower(e) == IF e = "TRUE" THEN "true" ELSE e

\* dry_run = request_json.get('dry_run', False);
\* if os.getenv('DRY_RUN', '').lower() in ('true', '1', 'yes'): dry_run = True
ResolveDryRun(req, env) ==
    IF Lower(env) \in {"true", "1", "yes"} THEN TRUE ELSE req = "true"

\* the config sections that gate a write: dayparting enabled with a
\* multiplier other than 1.0, keyword_discovery and negative_keywords
\* enabled with auto_add
MainConfigs == [dayparting : BOOLEAN, keyword_discovery : BOOLEAN,
                negative_keywords : BOOLEAN]

\* the write calls of the five features when each finds n changes to make;
\* the features are called with (api, config): dry_run is not among their
\* arguments
MainWrites(dry, cfg, n) ==
    IF n = 0 THEN {}
    ELSE {[feature |-> "bid_optimization", call |-> "update_keywords"]}
         \cup (IF cfg.dayparting
               THEN {[feature |-> "dayparting", call |-> "update_keywords"]} ELSE {})
         \cup (IF cfg.keyword_discovery
               THEN {[feature |-> "keyword_discovery", call |-> "create_keywords"]}
               ELSE {})
         \cup (IF cfg.negative_keywords
               THEN {[feature |-> "negative_keywords",
                      call |-> "create_negative_keywords"]}
               ELSE {})

MainInit ==
    /\ now = 0
    /\ variant = "v3"
    /\ MainStart

\* one run_optimizer call that reaches its return of status 'success'
MainRun ==
    /\ ~main_log.made
    /\ \E req \in RequestDryRun, env \in EnvDryRun, cfg \in MainConfigs,
          n \in 0..MaxCandidates :
        main_log' = [made |-> TRUE,
                     dry_run |-> ResolveDryRun(req, env),
                     writes |-> MainWrites(ResolveDryRun(req, env), cfg, n),
                     response_dry_run |-> ResolveDryRun(req, env),
                     request |-> req, env |-> env]
    /\ UNCHANGED <<now, variant, clientVars, mainRest>>

----------------------------------------------------------------------------
(* Dashboard server (api_server.py): metrics_cache, update_metrics_cache    *)
(* (the background thread), get_metrics (one thread per request)            *)

CACHE_DURATION == 300
SECONDS_PER_DAY == 86400

\* fetch_metrics calls that return metrics in one behaviour
MaxFetches == 3
\* periods of time that pass in one behaviour
MaxDashSteps == 2

\* a second while threads run; a cache period and somewhat more than a day
\* while every request is answered and the refresher sleeps or fails
ShortGaps == {Sec(1)}
LongGaps == {Sec(CACHE_DURATION), Sec(SECONDS_PER_DAY) + Sec(10)}

\* (datetime.now() - last_updated).seconds: the seconds field of the
\* timedelta, 0 <= seconds < 86400, the days being a field of their own
Age(elapsed) == (elapsed \div TicksPerSecond) % SECONDS_PER_DAY

\* if age < CACHE_DURATION and metrics_cache['data']
Fresh(stamp, data, t) ==
    /\ stamp.time # None
    /\ Age(t - stamp.time) < CACHE_DURATION
    /\ data # 0

DashInit ==
    /\ now = Epoch
    /\ variant = "complete"
    /\ mc_data = 0
    /\ mc_stamp = NoStamp
    /\ bg \in {[pc |-> "fetch", m |-> 0, wake |-> 0], [pc |-> "off", m |-> 0, wake |-> 0]}
    /\ hs = [h \in Handlers |-> HandlerIdle]
    /\ fetches = 0
    /\ served = NoServed
    /\ dash_steps = 0

\* update_metrics_cache: metrics = fetch_metrics()
BgFetch ==
    /\ bg.pc = "fetch"
    /\ \E ok \in BOOLEAN :
        IF ok /\ fetches < MaxFetches
        THEN /\ fetches' = fetches + 1
             /\ bg' = [bg EXCEPT !.pc = "write_data", !.m = fetches + 1]
        ELSE /\ bg' = [bg EXCEPT !.pc = "sleep", !.wake = now + Sec(CACHE_DURATION)]
             /\ UNCHANGED fetches
    /\ UNCHANGED <<now, variant, clientVars, dashRest, mc_data, mc_stamp, hs, served,
                   dash_steps>>

\* metrics_cache['data'] = metrics
BgWriteData ==
    /\ bg.pc = "write_data"
    /\ mc_data' = bg.m
    /\ bg' = [bg EXCEPT !.pc = "write_stamp"]
    /\ UNCHANGED <<now, variant, clientVars, dashRest, mc_stamp, hs, fetches, served,
                   dash_steps>>

\* metrics_cache['last_updated'] = datetime.now(); time.sleep(CACHE_DURATION)
BgWriteStamp ==
    /\ bg.pc = "write_stamp"
    /\ mc_stamp' = [fetch |-> bg.m, time |-> now]
    /\ bg' = [bg EXCEPT !.pc = "sleep", !.wake = now + Sec(CACHE_DURATION)]
    /\ UNCHANGED <<now, variant, clientVars, dashRest, mc_data, hs, fetches, served,
                   dash_steps>>

\* time.sleep(CACHE_DURATION) returns
BgWake ==
    /\ bg.pc = "sleep"
    /\ now >= bg.wake
    /\ bg' = [bg EXCEPT !.pc = "fetch"]
    /\ UNCHANGED <<now, variant, clientVars, dashRest, mc_data, mc_stamp, hs, fetches,
                   served, dash_steps>>

\* get_metrics: the freshness check on metrics_cache['last_updated']
HCheck(h) ==
    /\ hs[h].pc = "idle"
    /\ hs' = [hs EXCEPT ![h] =
                IF Fresh(mc_stamp, mc_data, now)
                THEN [pc |-> "serve", m |-> now - mc_stamp.time, stamp |-> mc_stamp.fetch]
                ELSE [pc |-> "fetch", m |-> 0, stamp |-> 0]]
    /\ UNCHANGED <<now, variant, clientVars, dashRest, mc_data, mc_stamp, bg, fetches,
                   served, dash_steps>>

\* return jsonify(metrics_cache['data'])
HServe(h) ==
    /\ hs[h].pc = "serve"
    /\ served' = [made |-> TRUE, data |-> mc_data, stamp |-> hs[h].stamp,
                  age |-> hs[h].m]
    /\ hs' = [hs EXCEPT ![h] = HandlerIdle]
    /\ UNCHANGED <<now, variant, clientVars, dashRest, mc_data, mc_stamp, bg, fetches,
                   dash_steps>>

\* metrics = fetch_metrics(); the 503 answer when it returns None
HFetch(h) ==
    /\ hs[h].pc = "fetch"
    /\ \E ok \in BOOLEAN :
        IF ok /\ fetches < MaxFetches
        THEN /\ fetches' = fetches + 1
             /\ hs' = [hs EXCEPT ![h] = [pc |-> "write_data", m |-> fetches + 1,
                                         stamp |-> 0]]
        ELSE /\ hs' = [hs EXCEPT ![h] = HandlerIdle]
             /\ UNCHANGED fetches
    /\ UNCHANGED <<now, variant, clientVars, dashRest, mc_data, mc_stamp, bg, served,
                   dash_steps>>

\* metrics_cache['data'] = metrics
HWriteData(h) ==
    /\ hs[h].pc = "write_data"
    /\ mc_data' = hs[h].m
    /\ hs' = [hs EXCEPT ![h].pc = "write_stamp"]
    /\ UNCHANGED <<now, variant, clientVars, dashRest, mc_stamp, bg, fetches, served,
                   dash_steps>>

\* metrics_cache['last_updated'] = datetime.now(); return jsonify(metrics)
HWriteStamp(h) ==
    /\ hs[h].pc = "write_stamp"
    /\ mc_stamp' = [fetch |-> hs[h].m, time |-> now]
    /\ hs' = [hs EXCEPT ![h] = HandlerIdle]
    /\ UNCHANGED <<now, variant, clientVars, dashRest, mc_data, bg, fetches, served,
                   dash_steps>>

\* no thread is between a fetch and the end of its writes
Quiet ==
    /\ \A h \in Handlers : hs[h].pc = "idle"
    /\ bg.pc \in {"sleep", "off"}

\* time passes
DashAdvance ==
    /\ dash_steps < MaxDashSteps
    /\ dash_steps' = dash_steps + 1
    /\ \E d \in ShortGaps \cup (IF Quiet THEN LongGaps ELSE {}) : now' = now + d
    /\ UNCHANGED <<variant, clientVars, dashRest, mc_data, mc_stamp, bg, hs, fetches,
                   served>>

----------------------------------------------------------------------------
(* POST /api/optimize (api_server.py): run_optimization and the optimize    *)
(* thread it starts                                                         *)

\* the optimize threads that have been started and have not finished
Unfinished == {h \in PoolHandlers : opt_threads[h] \in {"started", "running"}}

PoolInit ==
    /\ now = 0
    /\ variant = "complete"
    /\ PoolStart

\* run_optimization: if metrics_cache['optimizer_running']: return 409
PCheck(h) ==
    /\ opt_h[h].pc = "idle"
    /\ opt_h' = [opt_h EXCEPT ![h] =
                    IF opt_flag
                    THEN [pc |-> "done", answer |-> "already_running",
                          busy |-> Unfinished # {}]
                    ELSE [pc |-> "checked", answer |-> "none",
                          busy |-> Unfinished # {}]]
    /\ UNCHANGED <<now, variant, clientVars, poolRest, opt_flag, opt_threads>>

\* thread = threading.Thread(target=optimize); thread.start();
\* return 'started'
PStart(h) ==
    /\ opt_h[h].pc = "checked"
    /\ opt_threads' = [opt_threads EXCEPT ![h] = "started"]
    /\ opt_h' = [opt_h EXCEPT ![h].pc = "done", ![h].answer = "started"]
    /\ UNCHANGED <<now, variant, clientVars, poolRest, opt_flag>>

\* optimize: metrics_cache['optimizer_running'] = True
TBegin(h) ==
    /\ opt_threads[h] = "started"
    /\ opt_flag' = TRUE
    /\ opt_threads' = [opt_threads EXCEPT ![h] = "running"]
    /\ UNCHANGED <<now, variant, clientVars, poolRest, opt_h>>

\* optimize: finally: metrics_cache['optimizer_running'] = False
TEnd(h) ==
    /\ opt_threads[h] = "running"
    /\ opt_flag' = FALSE
    /\ opt_threads' = [opt_threads EXCEPT ![h] = "finished"]
    /\ UNCHANGED <<now, variant, clientVars, poolRest, opt_h>>

----------------------------------------------------------------------------
(* The cached accessors of two optimized clients created with different     *)
(* profile_id values, both with CacheManager(cache_dir="./cache")           *)

Profiles == {"profileA", "profileB"}
CachedAccessors ==
    {"get_campaigns", "get_ad_groups", "get_keywords", "get_negative_keywords",
     "get_report_data"}

\* the key an accessor of the client of a profile passes to cache.get and
\* cache.set, every optional argument at its default: the prefix and the
\* keyword arguments, which _get_cache_key sorts by name
ScopeKey(a, profile) ==
    CASE a = "get_campaigns" ->
            <<"campaigns", {<<"profile_id", profile>>, <<"state", PyNone>>}>>
      [] a = "get_ad_groups" -> <<"ad_groups", {<<"campaign_id", PyNone>>}>>
      [] a = "get_keywords" ->
            <<"keywords", {<<"campaign_id", PyNone>>, <<"ad_group_id", PyNone>>}>>
      [] a = "get_negative_keywords" ->
            <<"negative_keywords", {<<"campaign_id", PyNone>>}>>
      [] OTHER ->
            <<"report_keywords", {<<"report_date", PyNone>>, <<"segment", PyNone>>,
                                  <<"metrics", "sorted">>}>>

ScopeInit ==
    /\ now = 0
    /\ variant = "optimized"
    /\ ScopeStart

\* an accessor call of the client of profile p, within the cache lifetime:
\* the entry under its key if there is one (a hit), else the records fetched
\* under the profile's scope header, stored under the key
ScopeCall(p, a) ==
    LET k == ScopeKey(a, p)
        found == {e \in scope_log.entries : e.key = k}
    IN  /\ scope_log' =
            IF found # {}
            THEN [entries |-> scope_log.entries,
                  hit |-> [made |-> TRUE, accessor |-> a, reader |-> p,
                           owner |-> (CHOOSE e \in found : TRUE).owner]]
            ELSE [entries |-> scope_log.entries \cup {[key |-> k, owner |-> p]},
                  hit |-> scope_log.hit]
        /\ UNCHANGED <<now, variant, clientVars, scopeRest>>

----------------------------------------------------------------------------
(* The bid sent in a keyword update: BidOptimizer._calculate_new_bid and    *)
(* DaypartingManager.apply_dayparting (complete), apply_bid_optimization    *)
(* and apply_dayparting (main.py). Bids are in cents, factors in percent.   *)

\* keyword.bid: the current bid
CurrentBids == {10, 25, 30, 400, 500, 600}
\* bid_optimization.min_bid (0.25 and 0.30 are the defaults), max_bid
MinBids == {25, 30}
MaxBids == {500}
\* 1 - down_pct, 1 + bid_adjustment_percent / 100, 1 + up_pct; the
\* dayparting multipliers
BidFactors == {80, 110, 115}
Multipliers == {40, 100, 150, 180, 200}

\* round(x, 2) of a bid given in hundredths of a cent, ties to even
RoundCent(x) ==
    LET q == x \div 100
        r == x % 100
    IN  IF r > 50 \/ (r = 50 /\ q % 2 = 1) THEN q + 1 ELSE q

Abs(x) == IF x < 0 THEN 0 - x ELSE x

\* max(min_bid, min(max_bid, new_bid))
Clamp(lo, hi, x) == Max(lo, Min(hi, x))

\* the bid a path sends for a keyword, None when it sends no update
SentBid(path, cur, lo, hi, f) ==
    CASE path = "BidOptimizer" ->
            \* new_bid = current_bid * (1 +- pct); clamp; round;
            \* sent if new_bid and abs(new_bid - keyword.bid) > 0.01
            LET nb == RoundCent(Clamp(lo * 100, hi * 100, cur * f))
            IN  IF nb # 0 /\ Abs(nb - cur) > 1 THEN nb ELSE None
      [] path = "DaypartingManager" ->
            \* new_bid = base_bid * multiplier; clamp; round
            LET nb == RoundCent(Clamp(lo * 100, hi * 100, cur * f))
            IN  IF Abs(nb - cur) > 1 THEN nb ELSE None
      [] path = "apply_bid_optimization" ->
            \* new_bid = round(current_bid * (1 + bid_adjustment), 2); clamp
            LET nb == Clamp(lo, hi, RoundCent(cur * f))
            IN  IF Abs(nb - cur) > 1 THEN nb ELSE None
      [] OTHER ->
            \* if multiplier != 1.0: adjusted_bid = round(kw.bid * multiplier, 2);
            \* sent if adjusted_bid != kw.bid
            LET nb == RoundCent(cur * f)
            IN  IF f # 100 /\ nb # cur THEN nb ELSE None

\* the factors a path can apply: _get_multiplier clamps the multiplier to
\* [min_multiplier, max_multiplier] = [0.4, 1.8]; main.py takes
\* hourly_multipliers as configured
FactorsOf(path) ==
    CASE path \in {"BidOptimizer", "apply_bid_optimization"} -> BidFactors
      [] path = "DaypartingManager" -> {m \in Multipliers : m >= 40 /\ m <= 180}
      [] OTHER -> Multipliers

BidInit ==
    /\ now = 0
    /\ variant \in {"complete", "v3"}
    /\ BidStart

\* one keyword handled by one feature
BidUpdate ==
    /\ ~bid_case.made
    /\ \E path \in (IF variant = "complete" THEN {"BidOptimizer", "DaypartingManager"}
                    ELSE {"apply_bid_optimization", "apply_dayparting"}),
          cur \in CurrentBids, lo \in MinBids, hi \in MaxBids :
       \E f \in FactorsOf(path) :
        bid_case' = [made |-> TRUE, path |-> path, current |-> cur, min_bid |-> lo,
                     max_bid |-> hi, factor |-> f,
                     sent |-> SentBid(path, cur, lo, hi, f)]
    /\ UNCHANGED <<now, variant, clientVars, bidRest>>

----------------------------------------------------------------------------
(* Specifications *)

LimParked == last_request_time = 0 /\ grant_log = <<>>
BucketParked == tokens = 0 /\ last_update = 0 /\ last_acquire = [n |-> 0, waited |-> FALSE]

TokenParked ==
    /\ expires_in = 0
    /\ expires_at = 0
    /\ token_valid_until = 0
    /\ check_log = [made |-> FALSE, exchanges |-> 0, margin |-> 0]
ReqParked ==
    /\ pc = "idle"
    /\ attempt = 0
    /\ hdr_valid_until = 0
    /\ responses = <<>>
    /\ sent = <<>>
    /\ sleeps = <<>>
    /\ result = NoResult
    /\ idle_steps = 0
    /\ acquired = 0

ReportParked == ReportStart
CacheParked ==
    /\ files = <<>>
    /\ stored = <<>>
    /\ cache_ret = NoOp
    /\ run_log = NoRun
    /\ ops = 0
BatchParked ==
    /\ helper = "none"
    /\ updates = <<>>
    /\ batch_size = 0
    /\ batch_i = 0
    /\ issued = <<>>
    /\ any_failed = FALSE
    /\ batch_pc = "done"
ClientParked == LimParked /\ BucketParked /\ TokenParked /\ ReqParked
AccParked == AccStart
RunParked == dry_run = FALSE /\ features = {} /\ RunStart
DlParked == DlStart
ThrParked == ThrStart
OptParked == OptStart
WrParked == WrStart
CohParked == CohStart
OrchParked == OrchStart
WaitParked == WaitStart
DashParked == DashStart
PoolParked == PoolStart
MainParked == MainStart
ScopeParked == ScopeStart
BidParked == BidStart
LateParked ==
    OrchParked /\ WaitParked /\ DashParked /\ PoolParked /\ MainParked
               /\ ScopeParked /\ BidParked
TailParked == OptParked /\ WrParked /\ CohParked /\ LateParked
ExtParked == AccParked /\ RunParked /\ DlParked /\ ThrParked /\ TailParked

LimNext == LimCall \/ LimAdvance
InitLimiter ==
    LimInit /\ BucketParked /\ TokenParked /\ ReqParked
            /\ ReportParked /\ CacheParked /\ BatchParked /\ ExtParked
SpecLimiter == InitLimiter /\ [][LimNext]_vars

BucketNext == BucketCall \/ BucketAdvance
InitBucket ==
    BucketInit /\ LimParked /\ TokenParked /\ ReqParked
               /\ ReportParked /\ CacheParked /\ BatchParked /\ ExtParked
SpecBucket == InitBucket /\ [][BucketNext]_vars

ReqNext == ReqIdle \/ ReqBegin \/ ReqAttempt
InitRequest == ReqInit /\ ReportParked /\ CacheParked /\ BatchParked /\ ExtParked
SpecRequest == InitRequest /\ [][ReqNext]_vars

ReportNext == RpBegin \/ RpIterate
InitReport == ReportInit /\ ClientParked /\ CacheParked /\ BatchParked /\ ExtParked
SpecReport == InitReport /\ [][ReportNext]_vars

CacheNext == CacheGet \/ CacheSet \/ CacheClearExpired \/ CacheRun \/ CacheAdvance
InitCache == CacheInit /\ ClientParked /\ ReportParked /\ BatchParked /\ ExtParked
SpecCache == InitCache /\ [][CacheNext]_vars

BatchNext == BatchIterate
InitBatch == BatchInit /\ ClientParked /\ ReportParked /\ CacheParked /\ ExtParked
SpecBatch == InitBatch /\ [][BatchNext]_vars

AccNext == AccIdle \/ AccCall
InitAccessor ==
    AccInit /\ ReqParked /\ ReportParked /\ CacheParked /\ BatchParked /\ RunParked
            /\ DlParked /\ ThrParked /\ TailParked
SpecAccessor == InitAccessor /\ [][AccNext]_vars

RunNext == RunFeature
InitRun ==
    RunInit /\ ClientParked /\ ReportParked /\ CacheParked /\ BatchParked /\ AccParked
            /\ DlParked /\ ThrParked /\ TailParked
SpecRun == InitRun /\ [][RunNext]_vars

DlNext == DlDownload
InitDownload ==
    DlInit /\ ClientParked /\ ReportParked /\ CacheParked /\ BatchParked /\ AccParked
           /\ RunParked /\ ThrParked /\ TailParked
SpecDownload == InitDownload /\ [][DlNext]_vars

ThrNext == ThrCall \/ ThrAdvance
InitThroughput ==
    ThrInit /\ TokenParked /\ ReqParked /\ ReportParked /\ CacheParked /\ BatchParked
            /\ AccParked /\ RunParked /\ DlParked /\ TailParked
SpecThroughput == InitThroughput /\ [][ThrNext]_vars

\* every layer of the client and of its callers up to the limiter throughput
HeadParkedBut ==
    ClientParked /\ ReportParked /\ CacheParked /\ BatchParked
                 /\ AccParked /\ RunParked /\ DlParked /\ ThrParked
HeadParked == HeadParkedBut /\ LateParked

OptNext == OptRun
InitOptimizer == OptInit /\ HeadParked /\ WrParked /\ CohParked
SpecOptimizer == InitOptimizer /\ [][OptNext]_vars

WrNext == WrCall
InitWrite == WrInit /\ HeadParked /\ OptParked /\ CohParked
SpecWrite == InitWrite /\ [][WrNext]_vars

TransportNext == ReqIdle \/ ReqBegin \/ ReqTransport
InitTransport == ReqInit /\ ReportParked /\ CacheParked /\ BatchParked /\ ExtParked
SpecTransport == InitTransport /\ [][TransportNext]_vars

OrchNext == OrchFeature \/ OrchReturn
InitOrch ==
    OrchInit /\ HeadParkedBut /\ OptParked /\ WrParked /\ CohParked
             /\ WaitParked /\ DashParked /\ PoolParked /\ MainParked /\ ScopeParked
             /\ BidParked
SpecOrch == InitOrch /\ [][OrchNext]_vars

WaitNext == WaitBegin \/ WaitIterate \/ WaitIterateV3
InitWait ==
    WaitInit /\ ClientParked /\ CacheParked /\ BatchParked
             /\ AccParked /\ RunParked /\ DlParked /\ ThrParked
             /\ OptParked /\ WrParked /\ CohParked
             /\ OrchParked /\ DashParked /\ PoolParked /\ MainParked /\ ScopeParked
             /\ BidParked
\* the calling thread runs the loop to its end: each sleep returns
SpecWait == InitWait /\ [][WaitNext]_vars /\ WF_vars(WaitNext)

MainNext == MainRun
InitMain ==
    MainInit /\ HeadParkedBut /\ OptParked /\ WrParked /\ CohParked
             /\ OrchParked /\ WaitParked /\ DashParked /\ PoolParked /\ ScopeParked
             /\ BidParked
SpecMain == InitMain /\ [][MainNext]_vars

DashOthersParked ==
    HeadParkedBut /\ OptParked /\ WrParked /\ CohParked
                  /\ OrchParked /\ WaitParked /\ PoolParked /\ MainParked
                  /\ ScopeParked /\ BidParked
DashNext ==
    \/ BgFetch \/ BgWriteData \/ BgWriteStamp \/ BgWake
    \/ \E h \in Handlers :
          HCheck(h) \/ HServe(h) \/ HFetch(h) \/ HWriteData(h) \/ HWriteStamp(h)
    \/ DashAdvance
InitDashboard == DashInit /\ DashOthersParked
SpecDashboard == InitDashboard /\ [][DashNext]_vars

\* one request at a time, the refresher not running
MetricsNext ==
    \/ HCheck("h1") \/ HServe("h1") \/ HFetch("h1") \/ HWriteData("h1")
    \/ HWriteStamp("h1")
    \/ DashAdvance
InitMetrics == DashInit /\ bg.pc = "off" /\ DashOthersParked
SpecMetrics == InitMetrics /\ [][MetricsNext]_vars

PoolNext == \E h \in PoolHandlers : PCheck(h) \/ PStart(h) \/ TBegin(h) \/ TEnd(h)
InitPool ==
    PoolInit /\ HeadParkedBut /\ OptParked /\ WrParked /\ CohParked
             /\ OrchParked /\ WaitParked /\ DashParked /\ MainParked /\ ScopeParked
             /\ BidParked
SpecPool == InitPool /\ [][PoolNext]_vars

ScopeNext == \E p \in Profiles, a \in CachedAccessors : ScopeCall(p, a)
InitScope ==
    ScopeInit /\ HeadParkedBut /\ OptParked /\ WrParked /\ CohParked
              /\ OrchParked /\ WaitParked /\ DashParked /\ PoolParked /\ MainParked
              /\ BidParked
SpecScope == InitScope /\ [][ScopeNext]_vars

BidNext == BidUpdate
InitBid ==
    BidInit /\ HeadParkedBut /\ OptParked /\ WrParked /\ CohParked
            /\ OrchParked /\ WaitParked /\ DashParked /\ PoolParked /\ MainParked
            /\ ScopeParked
SpecBid == InitBid /\ [][BidNext]_vars

CohNext == CohGet \/ CohUpdate \/ CohAdvance
InitCoherence == CohInit /\ HeadParked /\ OptParked /\ WrParked
SpecCoherence == InitCoherence /\ [][CohNext]_vars

----------------------------------------------------------------------------
(* C3: fixed-interval limiter: any two consecutive grants, i.e. two         *)
(* consecutive assignments of last_request_time, are at least               *)
(* min_interval = 1 / requests_per_second apart.                            *)
C3_GrantsSeparated ==
    Len(grant_log) = 2 => grant_log[2] - grant_log[1] >= Interval(variant)

\* two grants have happened, the second one after a sleep of the remainder
C3_Witness ==
    /\ Len(grant_log) = 2
    /\ variant = "v3"
    /\ grant_log[2] - grant_log[1] = Interval(variant)

(* C4: token bucket: 0 <= tokens <= bucket_size in every state, also after  *)
(* acquire(n) with n larger than bucket_size.                               *)
C4_TokensInRange == tokens >= 0 /\ tokens <= BucketCap

\* an acquire of more tokens than the bucket holds has waited and emptied it
C4_Witness ==
    /\ last_acquire.n > BUCKET_SIZE
    /\ last_acquire.waited
    /\ tokens = 0

----------------------------------------------------------------------------
(* Claims about _request *)

StatusesOf(rs) == [i \in 1..Len(rs) |-> rs[i].status]
Is2xx(s) == s >= 200 /\ s < 300
IsErrorStatus(s) == s >= 400
Finished == pc \in {"returned", "raised"}
BodyOf(s) == IF s = <<>> THEN None ELSE s[Len(s)].body
StatusOf(s) == IF s = <<>> THEN None ELSE s[Len(s)].status

(* C1 as stated: _request never makes more than max_retries attempts, it   *)
(* returns exactly when a response is 2xx, namely the first such response, *)
(* and it raises after exactly max_retries attempts when the first         *)
(* max_retries responses are all non-2xx.                                  *)
C1_Original ==
    /\ Len(responses) <= MaxRetries(variant)
    /\ pc = "attempting" =>
          \A i \in 1..Len(responses) : ~Is2xx(responses[i].status)
    /\ pc = "returned" =>
          /\ Is2xx(StatusOf(responses))
          /\ \A i \in 1..(Len(responses) - 1) : ~Is2xx(responses[i].status)
    /\ pc = "raised" => Len(responses) = MaxRetries(variant)
    /\ (Finished /\ \A i \in 1..Len(responses) : ~Is2xx(responses[i].status))
          => pc = "raised" /\ Len(responses) = MaxRetries(variant)

(* C1 as amended: _request never makes more than max_retries attempts; it  *)
(* returns the first response whose status is not an error status (below   *)
(* 400: raise_for_status accepts it), without a further attempt; while     *)
(* every response is a 4xx/5xx it goes on, and it raises after exactly     *)
(* max_retries attempts when the first max_retries responses are all       *)
(* 4xx/5xx.                                                                *)
C1_ReturnsFirstNonError ==
    /\ Len(responses) <= MaxRetries(variant)
    /\ attempt = Len(responses)
    /\ pc = "attempting" =>
          /\ Len(responses) < MaxRetries(variant)
          /\ \A i \in 1..Len(responses) : IsErrorStatus(responses[i].status)
    /\ pc = "returned" =>
          /\ ~IsErrorStatus(StatusOf(responses))
          /\ \A i \in 1..(Len(responses) - 1) : IsErrorStatus(responses[i].status)
          /\ result = [kind |-> "response", status |-> StatusOf(responses),
                       body |-> BodyOf(responses)]
    /\ pc = "raised" =>
          /\ Len(responses) = MaxRetries(variant)
          /\ \A i \in 1..Len(responses) : IsErrorStatus(responses[i].status)
          /\ result.kind \in {"HTTPError", "Exception"}

\* [429, 429, 200] has succeeded on the third attempt
C1_Witness ==
    /\ variant = "complete"
    /\ pc = "returned"
    /\ StatusesOf(responses) = <<429, 429, 200>>

(* C2: every request _request sends, the first attempt and every retried   *)
(* attempt, carries a token that expires at least 60 seconds after the     *)
(* send.                                                                   *)
C2_SentTokenFresh ==
    \A i \in 1..Len(sent) : sent[i] >= Grace

(* C9 as stated: a token check makes at most one exchange and leaves a     *)
(* token that expires at least 60 seconds later, whatever expires_in is.   *)
C9_Original ==
    check_log.made => check_log.exchanges <= 1 /\ check_log.margin >= Grace

(* C9 as amended: a token check makes at most one exchange and leaves a    *)
(* token that expires at least min(60 seconds, expires_in) later: 60       *)
(* seconds or more whenever the endpoint grants at least 60 seconds.       *)
C9_AtMostOneExchange ==
    check_log.made =>
        /\ check_log.exchanges <= 1
        /\ check_log.margin >= Min(Grace, expires_in)
        /\ check_log.exchanges = 1 => check_log.margin = expires_in

\* a check found the token within its grace period and exchanged it
C9_Witness ==
    /\ check_log.made
    /\ check_log.exchanges = 1
    /\ expires_in >= Grace
    /\ idle_steps > 0

(* C10: when _request gives up after its last attempt, the error it raises *)
(* carries the status code and the body of the last response.              *)
C10_ErrorCarriesLast ==
    pc = "raised" =>
        /\ result.status = StatusOf(responses)
        /\ result.body = BodyOf(responses)

----------------------------------------------------------------------------
(* Claims about wait_for_report *)

Terminal == {"SUCCESS", "FAILURE", "CANCELLED"}

(* C5: wait_for_report returns the download location at the first poll     *)
(* whose status is SUCCESS, returns None at the first poll whose status is *)
(* FAILURE or CANCELLED without polling again, and returns None when the   *)
(* deadline passes with no terminal status observed.                       *)
C5_WaitResult ==
    /\ \A k \in 1..(Len(poll_log) - 1) : poll_log[k] \notin Terminal
    /\ rp_pc = "polling" =>
          /\ ~ret.returned
          /\ last_poll.status \notin Terminal
    /\ rp_pc = "done" =>
          /\ ret.returned
          /\ last_poll.status = "SUCCESS" => ret.value = last_poll.location
          /\ last_poll.status \in {"FAILURE", "CANCELLED"} => ret.value = PyNone
          /\ last_poll.status \notin Terminal =>
                /\ ret.value = PyNone
                /\ now - start_time >= ReportTimeout(variant)

\* [RUNNING, RUNNING, SUCCESS(url)] has returned url
C5_Witness ==
    /\ rp_pc = "done"
    /\ poll_log = <<"RUNNING", "RUNNING", "SUCCESS">>
    /\ ret.value = "url"

----------------------------------------------------------------------------
(* Claims about CacheManager *)

(* C6: a get made without an I/O failure, after a successful set with the  *)
(* same logical key (keyword arguments in any order): returns the stored   *)
(* payload while the entry is younger than the cache lifetime; returns a   *)
(* miss and removes the entry once it is older than the lifetime; and a    *)
(* get that finds no entry is a miss.                                      *)
C6_GetAfterSet ==
    (cache_ret.op = "get" /\ cache_ret.io = "none") =>
        LET e == stored[cache_ret.lkey] IN
        /\ (e.state = "set" /\ now - e.at < CacheLifetime) =>
              cache_ret.value = e.payload
        /\ (e.state = "set" /\ now - e.at > CacheLifetime) =>
              /\ cache_ret.value = PyNone
              /\ cache_ret.key \notin DOMAIN files
        /\ ~cache_ret.existed => cache_ret.value = PyNone

\* a get has returned the payload that a set stored with the keyword
\* arguments in the other order
C6_Witness ==
    /\ cache_ret.op = "get"
    /\ cache_ret.io = "none"
    /\ cache_ret.value \in Payloads
    /\ stored[cache_ret.lkey].state = "set"
    /\ stored[cache_ret.lkey].kwargs # cache_ret.kwargs

(* C7: no cache operation raises to its caller (a failing get is a miss, a *)
(* failing set or clear_expired is absorbed), and an orchestrated run      *)
(* executes every enabled feature whatever the cache does.                 *)
C7_CacheNeverRaises ==
    /\ cache_ret.outcome # "raised"
    /\ run_log.made => run_log.executed = run_log.enabled

----------------------------------------------------------------------------
(* Claims about the batch write helpers *)

Ceil(n, b) == (n + b - 1) \div b

RECURSIVE Flatten(_)
Flatten(bs) == IF bs = <<>> THEN <<>> ELSE bs[1] \o Flatten(Tail(bs))

(* C8: when no request fails, a helper given n updates and batch size b    *)
(* has issued ceil(n/b) _request calls, every batch but the last of b      *)
(* elements, the last of n - b*(ceil(n/b)-1), and the batches concatenated *)
(* in issue order are the input list.                                      *)
C8_Batches ==
    (batch_pc = "done" /\ ~any_failed) =>
        LET n == Len(updates)
            c == Ceil(n, batch_size)
        IN  /\ Len(issued) = c
            /\ \A k \in 1..(c - 1) : Len(issued[k]) = batch_size
            /\ c > 0 => Len(issued[c]) = n - batch_size * (c - 1)
            /\ Flatten(issued) = updates

\* 250 updates in batches of 100 have gone out as 100 / 100 / 50
C8_Witness ==
    /\ batch_pc = "done"
    /\ ~any_failed
    /\ Len(updates) = 250
    /\ batch_size = BATCH_SIZE
    /\ [k \in 1..Len(issued) |-> Len(issued[k])] = <<100, 100, 50>>

----------------------------------------------------------------------------
(* Claims about the accessors *)

(* C11: when the token exchange made during an accessor call fails, it was  *)
(* attempted exactly once, with no limiter acquisition beyond the one of    *)
(* the API request, and the accessor call ends as an error: it does not     *)
(* return a value, in particular not the default of its except clause.      *)
C11_ExchangeFailurePropagates ==
    acc_pc = "done" /\ acc_log.needed /\ acc_log.outcome # "ok" =>
        /\ acc_log.exchanges = 1
        /\ acc_log.acquisitions <= 1
        /\ acc_result.kind \in {"SystemExit", "Exception"}

----------------------------------------------------------------------------
(* Claims about PPCAutomation.run *)

(* C12: in a dry run no feature makes a write call (update_keyword_bid,     *)
(* update_keywords_batch, update_campaign, create_keywords,                 *)
(* create_negative_keywords), whatever features are enabled and whatever    *)
(* changes they decide on: the calls made are read and report calls, and    *)
(* every audit entry carries dry_run = True.                                *)
C12_DryRunNoWrites ==
    dry_run =>
        /\ \A c \in api_log : c.kind \in {"read", "report"}
        /\ \A e \in audit_log : e.dry_run

C12_Witness ==
    /\ dry_run
    /\ variant = "optimized"
    /\ features = FeatureNames(variant)
    /\ feat_run = features
    /\ \A f \in features : \E e \in audit_log : e.feature = f /\ e.entries > 0
    /\ \E c \in api_log : c.kind = "read"

----------------------------------------------------------------------------
(* Claims about download_report *)

(* C13: download_report returns the same records for the plain-text, the    *)
(* gzip and the zip payload of the same report, and returns the empty list  *)
(* for a payload that fails to download or that none of the three decoders  *)
(* accepts.                                                                 *)
C13_FormatIndependent ==
    /\ \A f, g \in Formats :
          dl_out[f].made /\ dl_out[g].made
          /\ dl_out[f].condition = "intact" /\ dl_out[g].condition = "intact"
          => dl_out[f].records = dl_out[g].records
    /\ \A f \in Formats :
          dl_out[f].made /\ dl_out[f].condition # "intact"
          => dl_out[f].records = <<>>

----------------------------------------------------------------------------
(* Claims about the throughput of the limiters *)

(* C14: in any window of W ticks the grants made without waiting number at  *)
(* most ceil(W * requests_per_second) + burst_allowance, with               *)
(* burst_allowance = bucket_size for the token bucket and 1 for the fixed   *)
(* interval limiter: for any two remembered grants i <= j, the j - i + 1    *)
(* grants from the one to the other fit the bound for the window between    *)
(* them.                                                                    *)
C14_ThroughputBound ==
    \A i, j \in 1..Len(nowait_log) :
        i <= j =>
            j - i + 1 <= Ceil(nowait_log[j] - nowait_log[i], RatePeriod(variant))
                         + BurstAllowance(variant)

C14_Witness ==
    /\ variant = "optimized"
    /\ Len(nowait_log) > BUCKET_SIZE
    /\ nowait_log[1] = 0
    /\ nowait_log[BUCKET_SIZE] = 0
    /\ nowait_log[BUCKET_SIZE + 1] = TokenScale

----------------------------------------------------------------------------
(* Claims about the retry policy of _request *)

IsClientError(s) == s >= 400 /\ s < 500 /\ s \notin {425, 429}
IsRetryable(s) == s \in {425, 429} \/ (s >= 500 /\ s < 600)
\* response i was followed by another attempt, or one is about to be made
Retried(i) == Len(responses) > i \/ (Len(responses) = i /\ pc = "attempting")

(* C15 as stated: a 429, 425 or 5xx response is retried while attempts      *)
(* remain; any other error response (a 4xx such as 404) is not retried: it  *)
(* is the last response of the call, which fails.                           *)
C15_Original ==
    \A i \in 1..Len(responses) :
        /\ IsRetryable(responses[i].status) /\ i < MaxRetries(variant) => Retried(i)
        /\ IsClientError(responses[i].status) => ~Retried(i) /\ pc = "raised"

(* C15 as amended: every error response, a 4xx such as 404 included, is     *)
(* retried while attempts remain; only a response below 400 or the          *)
(* max_retries-th response ends the call.                                   *)
C15_RetriesEveryError ==
    /\ \A i \in 1..Len(responses) :
          IsErrorStatus(responses[i].status) /\ i < MaxRetries(variant) => Retried(i)
    /\ \A i \in 1..Len(responses) :
          ~Retried(i) => \/ ~IsErrorStatus(responses[i].status)
                         \/ i = MaxRetries(variant)

\* a 404 has been retried, then a 425, and the third attempt succeeded
C15_Witness ==
    /\ pc = "returned"
    /\ StatusesOf(responses) = <<404, 425, 200>>

(* C19: every HTTP attempt of a _request call has its own limiter           *)
(* acquisition: the acquisitions the call has made number the attempts it   *)
(* has issued.                                                              *)
C19_AcquirePerAttempt ==
    pc # "idle" => acquired >= Len(responses) /\ (Finished => acquired = Len(responses))

\* the delays the backoff formula of the claim is read with
BaseDelay(v) == IF v = "optimized" THEN BASE_RETRY_DELAY ELSE retry_delay_complete
ClaimedBackoff(v, k) == Sec(Min(MAX_RETRY_DELAY, BaseDelay(v) * Pow2(k)))

(* C20: the suspension before the next attempt, after failed attempt k      *)
(* (from 0), is the positive Retry-After value when the response is a 429   *)
(* or 425 that carries one, and min(max_delay, base_delay * 2^k) otherwise. *)
C20_BackoffDelay ==
    \A i \in 1..Len(sleeps) :
        i < MaxRetries(variant) =>
            sleeps[i] = IF responses[i].status \in {425, 429}
                           /\ responses[i].retry_after > 0
                        THEN Sec(responses[i].retry_after)
                        ELSE ClaimedBackoff(variant, i - 1)

----------------------------------------------------------------------------
(* Claims about run_optimizer and the batched writes *)

\* how the writes of a run went: every batch accepted, some, none
RunClass(r) ==
    IF ~r.client_ok \/ ~r.list_ok THEN "total failure"
    ELSE IF \A k \in 1..Len(r.outcomes) : r.outcomes[k] THEN "full success"
    ELSE IF \A k \in 1..Len(r.outcomes) : ~r.outcomes[k] THEN "total failure"
    ELSE "partial success"

(* C16: for the same fetched keywords, two runs whose writes went           *)
(* differently (all batches accepted, some, none or no list at all) return  *)
(* different status/results, and bids_increased + bids_decreased of a run   *)
(* is the number of updates the API accepted.                               *)
C16_OutcomesDistinct ==
    /\ \A i, j \in 1..Len(opt_runs) :
          RunClass(opt_runs[i]) # RunClass(opt_runs[j])
          => opt_runs[i].response # opt_runs[j].response
    /\ \A i \in 1..Len(opt_runs) :
          opt_runs[i].response.status = "success"
          => opt_runs[i].response.results.bids_increased
             + opt_runs[i].response.results.bids_decreased = opt_runs[i].accepted

(* C17: a write call reports an element as succeeded only if the result     *)
(* code of that element is SUCCESS; a 2xx answer for a batch with a         *)
(* non-SUCCESS element is not reported as success of that element or of     *)
(* the batch.                                                               *)
C17_PerElementCodes ==
    wr_log.made => \A k \in wr_log.reported : wr_log.codes[k] = "SUCCESS"

(* C18: every get_keywords of the caching client returns what the same call *)
(* returns in a client with caching disabled, the remote store being        *)
(* modified by this client only; in particular the updated bid after a      *)
(* successful update.                                                       *)
C18_CacheTransparent ==
    last_read.made => last_read.cached = last_read.uncached

----------------------------------------------------------------------------
(* Claims about network failures and the last attempt of _request *)

(* C21: when an attempt of _request fails with a network-level exception    *)
(* and attempts remain, _request retries; the exception reaches the caller  *)
(* only after max_retries attempts have been made.                          *)
C21_NetworkErrorRetried ==
    (pc = "raised" /\ result.kind = "ConnectionError")
        => Len(responses) = MaxRetries(variant)

(* C29: _request does not sleep after its last permitted attempt: a failing *)
(* call has slept max_retries - 1 times when the failure is raised.         *)
C29_NoSleepAfterLastAttempt ==
    (pc = "raised" /\ Len(responses) = MaxRetries(variant))
        => Len(sleeps) = MaxRetries(variant) - 1

----------------------------------------------------------------------------
(* Claims about the orchestrated run *)

(* C22: in an orchestrated run, when an enabled feature raises, every       *)
(* enabled feature ordered after it is still executed and has its result in *)
(* the returned results; the audit trail is saved in every case.            *)
C22_FeaturesIsolated ==
    orch.state = "returned" =>
        /\ orch.enabled \subseteq orch.executed
        /\ orch.enabled \ {orch.raised} \subseteq orch.results
        /\ variant \in RunVariants => orch.audit_saved

----------------------------------------------------------------------------
(* Claims about the report wait *)

\* no poll begins once the timeout has elapsed; at most 30 polls in v3
WaitBounded ==
    /\ (variant \in ReportVariants /\ wait_log.polls > 0)
           => wait_log.elapsed < ReportTimeout(variant)
    /\ variant = "v3" => wait_log.polls <= V3_MAX_POLLS

(* C23: a report wait is bounded: whatever the polls answer, the wait       *)
(* eventually returns; wait_for_report begins no poll once the time elapsed *)
(* since the call is at least timeout; _wait_for_report makes at most 30    *)
(* polls.                                                                   *)
C23_WaitTerminates == [](WaitBounded) /\ <>(rp_pc = "done")

\* the wait ran into its timeout, the last poll having begun one sleep
\* before it
C23_Witness ==
    /\ variant = "complete"
    /\ rp_pc = "done"
    /\ ret.why = "TIMEOUT"
    /\ wait_log.elapsed = ReportTimeout(variant) - PollInterval(variant)

----------------------------------------------------------------------------
(* Claims about run_optimizer *)

(* C26: when run_optimizer resolves dry_run to true, no feature makes a     *)
(* write call: a response with 'dry_run': true comes only from runs that    *)
(* made no write request.                                                   *)
C26_MainDryRunNoWrites ==
    (main_log.made /\ main_log.response_dry_run) => main_log.writes = {}

----------------------------------------------------------------------------
(* Claims about the dashboard server *)

(* C24: whenever get_metrics serves cached data, the data comes from the    *)
(* fetch whose completion stamped the last_updated used for the freshness   *)
(* check; and once all writers are idle, metrics_cache['data'] and          *)
(* metrics_cache['last_updated'] come from the same fetch.                  *)
C24_SlotConsistent ==
    /\ served.made => served.data = served.stamp
    /\ (Quiet /\ mc_stamp.fetch # 0) => mc_data = mc_stamp.fetch

(* C27: get_metrics returns cached metrics only if they were stored less    *)
(* than CACHE_DURATION seconds before the request, for every elapsed time   *)
(* since last_updated, also longer than one day.                            *)
C27_ServedOnlyWhenFresh ==
    served.made => served.age < Sec(CACHE_DURATION)

(* C25: at most one optimize thread is executing at any time; a request    *)
(* handled while a started optimization has not finished is answered 409    *)
(* 'already_running'; optimizer_running is true in every state in which an  *)
(* optimize thread has started and not yet finished.                        *)
C25_SingleOptimizer ==
    /\ Cardinality({h \in PoolHandlers : opt_threads[h] = "running"}) <= 1
    /\ \A h \in PoolHandlers : opt_h[h].answer = "started" => ~opt_h[h].busy
    /\ Unfinished # {} => opt_flag

----------------------------------------------------------------------------
(* Claims about the cache and the account scope *)

(* C28: a cache hit never returns data fetched under another account scope: *)
(* of two clients sharing the cache directory and created with different    *)
(* profile_id values, neither reads an entry the other stored, for every    *)
(* cached accessor.                                                         *)
C28_CacheScoped ==
    scope_log.hit.made => scope_log.hit.reader = scope_log.hit.owner

----------------------------------------------------------------------------
(* Claims about the bids sent *)

(* C30: every bid sent in a keyword update by the bid-optimization and      *)
(* dayparting features lies within [min_bid, max_bid], for every current    *)
(* bid, adjustment and multiplier, in the complete client and in main.py.   *)
C30_BidWithinBounds ==
    (bid_case.made /\ bid_case.sent # None)
        => bid_case.sent >= bid_case.min_bid /\ bid_case.sent <= bid_case.max_bid

====
